---- MODULE Spec2Model ----
(***************************************************************************)
(* A model of the VCDIFF (RFC 3284) decoder of ably/vcdiff-go: the varint  *)
(* reader, Adler-32, the default code table, the address cache, the        *)
(* container parser (ParseDelta / parseHeader / parseWindow), the          *)
(* instruction walker (parseInstructions) and the executor (decodeWindow,  *)
(* Decode).                                                                *)
(*                                                                         *)
(* Bytes are integers 0..255 and byte slices are sequences.  A uint32 is   *)
(* the pair <<hi, lo>> of its 16-bit halves, so that 32-bit wrap-around is *)
(* exact although TLC's own integers are 32-bit signed.  A bytes.Reader is *)
(* the record [s |-> bytes, i |-> bytes consumed].  An error is a string:  *)
(* "nil", "io.EOF" (the sentinel ParseDelta compares with) or a name for   *)
(* the message class of any other error.                                   *)
(***************************************************************************)
EXTENDS Integers, Sequences, FiniteSets, TLC

\* ------------------------------------------------------------------------
\* uint32 arithmetic on <<hi, lo>> pairs
\* ------------------------------------------------------------------------

\* 2^16
Half == 256 * 256

U32(hi, lo) == <<hi, lo>>

U32Zero == <<0, 0>>

\* uint32(n) of a non-negative int n below 2^31
U32FromInt(n) == <<(n \div Half) % Half, n % Half>>

\* a + b on uint32 (wraps modulo 2^32)
U32Add(a, b) ==
  LET lo == a[2] + b[2]
      hi == a[1] + b[1] + (lo \div Half)
  IN  <<hi % Half, lo % Half>>

\* a - b on uint32 (wraps modulo 2^32)
U32Sub(a, b) ==
  LET lo == a[2] - b[2]
      borrow == IF lo < 0 THEN 1 ELSE 0
      hi == a[1] - b[1] - borrow
  IN  <<(hi + Half) % Half, (lo + Half) % Half>>

U32Lt(a, b) == a[1] < b[1] \/ (a[1] = b[1] /\ a[2] < b[2])

U32Le(a, b) == a = b \/ U32Lt(a, b)

\* an accumulator wider than 32 bits: the bits shifted out are kept
U32Shl7Or_Wide(a, v) ==
  <<(a[1] * 128) + (a[2] \div 512), ((a[2] % 512) * 128) + v>>

\* (a << 7) | v on uint32, v a 7-bit value: the bits shifted out are lost
U32Shl7Or(a, v) ==
  <<((a[1] * 128) + (a[2] \div 512)) % Half, ((a[2] % 512) * 128) + v>>

\* a % m as an int, for 0 < m < 2^23
U32ModInt(a, m) == ((((((a[1] % m) * 256) % m) * 256) % m) + (a[2] % m)) % m

\* int(a) for a value known to be below 2^16
U32Small(a) == a[1] = 0

U32ToInt(a) == a[2]

\* ------------------------------------------------------------------------
\* bytes
\* ------------------------------------------------------------------------

RECURSIVE BitAnd(_, _)
\* x & y on non-negative integers
BitAnd(x, y) ==
  IF x = 0 \/ y = 0 THEN 0
  ELSE (x % 2) * (y % 2) + 2 * BitAnd(x \div 2, y \div 2)

RECURSIVE Zeros(_)
\* make([]byte, n): n zero bytes
Zeros(n) == IF n <= 0 THEN <<>> ELSE <<0>> \o Zeros(n - 1)

Min(a, b) == IF a < b THEN a ELSE b

\* ------------------------------------------------------------------------
\* bytes.Reader (Go standard library) as used by the decoder
\* ------------------------------------------------------------------------

NewReader(b) == [s |-> b, i |-> 0]

\* Reader.Len(): the unread bytes
RLen(r) == Len(r.s) - r.i

\* Reader.ReadByte(): io.EOF at the end, else the next byte
ReadByte(r) ==
  IF r.i >= Len(r.s)
  THEN [err |-> "io.EOF", b |-> 0, r |-> r]
  ELSE [err |-> "nil", b |-> r.s[r.i + 1], r |-> [r EXCEPT !.i = r.i + 1]]

\* buf := make([]byte, n); reader.Read(buf): io.EOF when no byte is unread
\* (also for n = 0); otherwise copies min(n, unread) bytes, returns a nil
\* error, and the rest of buf keeps its zeros (a short read is no error).
ReadBuf(r, n) ==
  IF r.i >= Len(r.s)
  THEN [err |-> "io.EOF", buf |-> Zeros(n), r |-> r]
  ELSE LET k == Min(n, RLen(r))
       IN  [err |-> "nil",
            buf |-> SubSeq(r.s, r.i + 1, r.i + k) \o Zeros(n - k),
            r   |-> [r EXCEPT !.i = r.i + k]]

\* ------------------------------------------------------------------------
\* constants
\* ------------------------------------------------------------------------

VCDIFFMagic1 == 214
VCDIFFMagic2 == 195
VCDIFFMagic3 == 196
VCDIFFVersion == 0
VCDIFFMagic == <<VCDIFFMagic1, VCDIFFMagic2, VCDIFFMagic3>>

VCDDecompress == 1
VCDCodetable == 2
VCDAppHeader == 4

VCDSource == 1
VCDTarget == 2
VCDAdler32 == 4

VarintContinuationBit == 128
VarintValueMask == 127
MaxVarintBytes == 5

NearCacheSize == 4
SameCacheSize == 3 * 256
MinimumFileSize == 4

SelfMode == 0
HereMode == 1

NoOp == 0
Add == 1
Run == 2
Copy == 3

adler32Base == 65521
adler32NMax == 5552

\* ------------------------------------------------------------------------
\* ReadVarint
\* ------------------------------------------------------------------------

VarintResult(err, val, r) == [err |-> err, val |-> val, r |-> r]

RECURSIVE ReadVarintLoop(_, _, _)
RECURSIVE ReadVarintByte(_, _, _)

\* a loop body that takes the continuation bit into the value
ReadVarintByte_NoMask(rb, result, i) ==
  IF rb.err # "nil"
  THEN VarintResult("varint-eof", U32Zero, rb.r)
  ELSE IF BitAnd(rb.b, VarintContinuationBit) = 0
  THEN VarintResult("nil", U32Shl7Or(result, rb.b), rb.r)
  ELSE ReadVarintLoop(rb.r, U32Shl7Or(result, rb.b), i + 1)

\* the body of the loop of ReadVarint once ReadByte has returned rb
ReadVarintByte(rb, result, i) ==
  IF rb.err # "nil"
  THEN VarintResult("varint-eof", U32Zero, rb.r)
  ELSE IF BitAnd(rb.b, VarintContinuationBit) = 0
  THEN VarintResult("nil", U32Shl7Or(result, BitAnd(rb.b, VarintValueMask)), rb.r)
  ELSE ReadVarintLoop(rb.r, U32Shl7Or(result, BitAnd(rb.b, VarintValueMask)), i + 1)

\* a loop with no limit on the number of bytes
ReadVarintLoop_NoLimit(reader, result, i) ==
  ReadVarintByte(ReadByte(reader), result, i)

\* the loop of ReadVarint from iteration i on, with the accumulator result
ReadVarintLoop(reader, result, i) ==
  IF i >= MaxVarintBytes
  THEN VarintResult("varint-too-long", U32Zero, reader)
  ELSE ReadVarintByte(ReadByte(reader), result, i)

ReadVarint(reader) == ReadVarintLoop(reader, U32Zero, 0)

\* ------------------------------------------------------------------------
\* Adler-32
\* ------------------------------------------------------------------------

RECURSIVE AdlerInner(_, _, _, _, _)
\* the inner loop: k bytes of data from 0-based index on
AdlerInner(data, index, k, s1, s2) ==
  IF k = 0 THEN <<s1, s2>>
  ELSE AdlerInner(data, index + 1, k - 1,
                  s1 + data[index + 1], s2 + s1 + data[index + 1])

RECURSIVE AdlerOuter(_, _, _, _, _)
\* the reduction after a chunk
AdlerReduce(data, index, length, s) ==
  AdlerOuter(data, index, length, s[1] % adler32Base, s[2] % adler32Base)

\* the outer loop: chunks of at most adler32NMax bytes, reduced after each.
\* (The sums stay far below 2^31 for the data lengths of this model, so the
\* uint32 accumulators never wrap here.)
AdlerOuter(data, index, length, s1, s2) ==
  IF length <= 0 THEN <<s1, s2>>
  ELSE AdlerReduce(data, index + Min(length, adler32NMax),
                   length - Min(length, adler32NMax),
                   AdlerInner(data, index, Min(length, adler32NMax), s1, s2))

\* the two sums packed the wrong way round
AdlerPack_Swapped(s) == <<s[1] % Half, s[2]>>

\* (s2 << 16) | s1
AdlerPack(s) == <<s[2] % Half, s[1]>>

\* ComputeChecksum(initial, data): initial a uint32, the result a uint32
ComputeChecksum(initial, data) ==
  IF Len(data) = 0 THEN initial
  ELSE AdlerPack(AdlerOuter(data, 0, Len(data), initial[2], initial[1]))

\* ------------------------------------------------------------------------
\* the default code table
\* ------------------------------------------------------------------------

NewInstruction(instrType, size, mode) ==
  [Type |-> instrType, Size |-> size, Mode |-> mode]

\* a row of the table: <<slot 0, slot 1>>
NoOpRow == <<NewInstruction(NoOp, 0, 0), NewInstruction(NoOp, 0, 0)>>

RECURSIVE ForRange(_, _, _)
\* the rows written by "for v := lo; v < hi; v++ { body(v) }", in order
ForRange(Body(_), lo, hi) ==
  IF lo >= hi THEN <<>> ELSE Body(lo) \o ForRange(Body, lo + 1, hi)

\* entry 0
RunRows == << <<NewInstruction(Run, 0, 0), NewInstruction(NoOp, 0, 0)>> >>

\* entries i+1 for i in 0..17
AddRowsBody(i) == << <<NewInstruction(Add, i, 0), NewInstruction(NoOp, 0, 0)>> >>
AddRows == ForRange(AddRowsBody, 0, 18)

\* from index 19: per mode, size 0 then sizes 4..18
CopySizeBody(mode) ==
  LET B(size) == << <<NewInstruction(Copy, size, mode), NewInstruction(NoOp, 0, 0)>> >>
  IN  ForRange(B, 4, 19)
CopyModeBody(mode) ==
  << <<NewInstruction(Copy, 0, mode), NewInstruction(NoOp, 0, 0)>> >> \o CopySizeBody(mode)
CopyRows == ForRange(CopyModeBody, 0, 9)

\* ADD addSize + COPY copySize, modes 0..5
AddCopyBody(mode) ==
  LET A(addSize) ==
        LET C(copySize) ==
              << <<NewInstruction(Add, addSize, 0), NewInstruction(Copy, copySize, mode)>> >>
        IN  ForRange(C, 4, 7)
  IN  ForRange(A, 1, 5)
AddCopyRows == ForRange(AddCopyBody, 0, 6)

\* ADD addSize + COPY 4, modes 6..8
AddCopy4Body(mode) ==
  LET A(addSize) ==
        << <<NewInstruction(Add, addSize, 0), NewInstruction(Copy, 4, mode)>> >>
  IN  ForRange(A, 1, 5)
AddCopy4Rows == ForRange(AddCopy4Body, 6, 9)

\* COPY 4 + ADD 1, modes 0..8
CopyAddBody(mode) ==
  << <<NewInstruction(Copy, 4, mode), NewInstruction(Add, 1, 0)>> >>
CopyAddRows == ForRange(CopyAddBody, 0, 9)

\* the writes made through the running index, which starts at 19
IndexedWrites == CopyRows \o AddCopyRows \o AddCopy4Rows \o CopyAddRows

\* BuildDefaultCodeTable(): every entry NoOp, then entry 0, entries 1..18,
\* and the indexed writes from entry 19 on
BuildDefaultCodeTable ==
  [code \in 0..255 |->
     IF code >= 19
     THEN IF code - 19 + 1 <= Len(IndexedWrites)
          THEN IndexedWrites[code - 19 + 1] ELSE NoOpRow
     ELSE IF code >= 1 THEN AddRows[code]
     ELSE RunRows[1]]

DefaultCodeTable == BuildDefaultCodeTable

\* a table read with the two slots of every entry exchanged
Get_Swapped(code, slot) == DefaultCodeTable[code][2 - slot]

\* CodeTable.Get(code, slot), slot 0 or 1
Get(code, slot) == DefaultCodeTable[code][slot + 1]

\* ------------------------------------------------------------------------
\* the address cache
\* ------------------------------------------------------------------------

\* NewAddressCache(nearSize, sameSize): near has nearSize entries and same
\* has sameSize*256 entries, all zero.  same is kept sparse: an index outside
\* DOMAIN same holds zero.
NewAddressCache(nearSize, sameSize) ==
  [nearSize |-> nearSize, sameSize |-> sameSize,
   near |-> [k \in 1..nearSize |-> U32Zero],
   nextNearSlot |-> 0,
   same |-> <<>>,
   addressStream |-> NewReader(<<>>)]

\* AddressCache.Reset(addresses)
Reset(ac, addresses) ==
  [ac EXCEPT !.nextNearSlot = 0,
             !.near = [k \in 1..ac.nearSize |-> U32Zero],
             !.same = <<>>,
             !.addressStream = NewReader(addresses)]

\* ac.same[idx], idx 0-based
SameAt(ac, idx) == IF idx \in DOMAIN ac.same THEN ac.same[idx] ELSE U32Zero

\* same with same[idx] = address
SameWith(same, idx, address) ==
  [j \in (DOMAIN same) \cup {idx} |-> IF j = idx THEN address ELSE same[j]]

\* Update, lines 109-112
UpdateNear(ac, address) ==
  IF ac.nearSize > 0
  THEN [ac EXCEPT !.near[ac.nextNearSlot + 1] = address,
                  !.nextNearSlot = (ac.nextNearSlot + 1) % ac.nearSize]
  ELSE ac

\* Update, lines 114-116
UpdateSame(ac, address) ==
  IF ac.sameSize > 0
  THEN [ac EXCEPT !.same = SameWith(ac.same, U32ModInt(address, ac.sameSize * 256),
                                    address)]
  ELSE ac

\* AddressCache.Update(address)
Update(ac, address) == UpdateSame(UpdateNear(ac, address), address)

AddrErr(err, ac) == [err |-> err, addr |-> U32Zero, ac |-> ac]

\* lines 103-104: ac.Update(addr); return addr, nil
AddrOk(ac, addr) == [err |-> "nil", addr |-> addr, ac |-> Update(ac, addr)]

\* the cache with its address stream advanced to r
Advanced(ac, r) == [ac EXCEPT !.addressStream = r]

\* SELF, once ReadVarint has returned v
DecodeSelf(ac, v) ==
  IF v.err # "nil" THEN AddrErr("self-read", Advanced(ac, v.r))
  ELSE AddrOk(Advanced(ac, v.r), v.val)

\* a HERE that enters the offset into the cache before it checks it
DecodeHere_UpdateFirst(ac, here, v) ==
  IF v.err # "nil" THEN AddrErr("here-read", Advanced(ac, v.r))
  ELSE IF U32Lt(here, v.val)
  THEN AddrErr("here-offset", Update(Advanced(ac, v.r), v.val))
  ELSE AddrOk(Advanced(ac, v.r), U32Sub(here, v.val))

\* HERE, once ReadVarint has returned v
DecodeHere(ac, here, v) ==
  IF v.err # "nil" THEN AddrErr("here-read", Advanced(ac, v.r))
  ELSE IF U32Lt(here, v.val) THEN AddrErr("here-offset", Advanced(ac, v.r))
  ELSE AddrOk(Advanced(ac, v.r), U32Sub(here, v.val))

\* near slot cacheIndex, once ReadVarint has returned v
DecodeNearOffset(ac, cacheIndex, v) ==
  IF v.err # "nil" THEN AddrErr("near-read", Advanced(ac, v.r))
  ELSE AddrOk(Advanced(ac, v.r), U32Add(ac.near[cacheIndex + 1], v.val))

\* lines 78-88
DecodeNear(ac, cacheIndex) ==
  IF ac.near[cacheIndex + 1] = U32Zero
  THEN AddrErr("near-uninitialized", ac)
  ELSE DecodeNearOffset(ac, cacheIndex, ReadVarint(ac.addressStream))

\* same table m, once ReadByte has returned rb
DecodeSameByte(ac, m, rb) ==
  IF rb.err # "nil" THEN AddrErr(rb.err, Advanced(ac, rb.r))
  ELSE AddrOk(Advanced(ac, rb.r), SameAt(ac, m * 256 + rb.b))

\* lines 90-99
DecodeSame(ac, m) ==
  IF m >= ac.sameSize THEN AddrErr("same-mode", ac)
  ELSE DecodeSameByte(ac, m, ReadByte(ac.addressStream))

\* AddressCache.DecodeAddress(here, mode): here a uint32, mode a byte.
\* The result carries the cache after the call.
DecodeAddress(ac, here, mode) ==
  IF mode > 8 THEN AddrErr("invalid-mode", ac)
  ELSE IF mode = SelfMode THEN DecodeSelf(ac, ReadVarint(ac.addressStream))
  ELSE IF mode = HereMode THEN DecodeHere(ac, here, ReadVarint(ac.addressStream))
  ELSE IF mode - 2 < ac.nearSize THEN DecodeNear(ac, mode - 2)
  ELSE DecodeSame(ac, mode - (2 + ac.nearSize))

\* ------------------------------------------------------------------------
\* the container parser
\* ------------------------------------------------------------------------

HeaderResult(err, indicator, r) == [err |-> err, indicator |-> indicator, r |-> r]

\* parseHeader lines 260-278, once ReadByte has returned h
parseHeaderIndicator(h) ==
  IF h.err # "nil" THEN HeaderResult("eof-header-indicator", 0, h.r)
  ELSE IF BitAnd(h.b, 255 - (VCDDecompress + VCDCodetable + VCDAppHeader)) # 0
  THEN HeaderResult("reserved-header-bits", h.b, h.r)
  ELSE HeaderResult("nil", h.b, h.r)

\* a header whose version byte is read and not compared
parseHeaderVersion_NoCheck(v) ==
  IF v.err # "nil" THEN HeaderResult("eof-version", 0, v.r)
  ELSE parseHeaderIndicator(ReadByte(v.r))

\* parseHeader lines 249-258, once ReadByte has returned v
parseHeaderVersion(v) ==
  IF v.err # "nil" THEN HeaderResult("eof-version", 0, v.r)
  ELSE IF v.b # VCDIFFVersion THEN HeaderResult("bad-version", 0, v.r)
  ELSE parseHeaderIndicator(ReadByte(v.r))

\* parseHeader lines 232-247, once Read has returned m, having read n bytes
parseHeaderMagic(m, n) ==
  IF m.err # "nil" THEN HeaderResult("eof-magic", 0, m.r)
  ELSE IF n < 3 THEN HeaderResult("eof-magic", 0, m.r)
  ELSE IF m.buf # VCDIFFMagic THEN HeaderResult("bad-magic", 0, m.r)
  ELSE parseHeaderVersion(ReadByte(m.r))

\* parseHeader(reader, header)
parseHeader(reader) ==
  parseHeaderMagic(ReadBuf(reader, 3), Min(3, RLen(reader)))

\* Window{}: the zero value
ZeroWindow ==
  [WinIndicator |-> 0, SourceSegmentSize |-> U32Zero, SourceSegmentPosition |-> U32Zero,
   TargetWindowLength |-> U32Zero, DeltaEncodingLength |-> U32Zero, DeltaIndicator |-> 0,
   DataSectionLength |-> U32Zero, InstructionSectionLength |-> U32Zero,
   AddressSectionLength |-> U32Zero,
   DataSection |-> <<>>, InstructionSection |-> <<>>, AddressSection |-> <<>>,
   Checksum |-> U32Zero, HasChecksum |-> FALSE]

WindowResult(err, w, r) == [err |-> err, w |-> w, r |-> r]

\* lines 396-404: the address section, read only when its length is not 0
parseWindowAddress(w, deltaReader, r) ==
  IF w.AddressSectionLength # U32Zero
  THEN WindowResult(ReadBuf(deltaReader, U32ToInt(w.AddressSectionLength)).err,
                    [w EXCEPT !.AddressSection =
                       ReadBuf(deltaReader, U32ToInt(w.AddressSectionLength)).buf],
                    r)
  ELSE WindowResult("nil", w, r)

\* lines 390-394, once Read has returned n
parseWindowInstructions(w, n, r) ==
  IF n.err # "nil" THEN WindowResult(n.err, w, r)
  ELSE parseWindowAddress([w EXCEPT !.InstructionSection = n.buf], n.r, r)

\* lines 384-388, once Read has returned d
parseWindowData(w, d, r) ==
  IF d.err # "nil" THEN WindowResult(d.err, w, r)
  ELSE parseWindowInstructions([w EXCEPT !.DataSection = d.buf],
                               ReadBuf(d.r, U32ToInt(w.InstructionSectionLength)), r)

\* lines 369-382, once Read has returned c: 4 bytes, big-endian
parseWindowChecksum(w, c, r) ==
  IF c.err # "nil" THEN WindowResult(c.err, [w EXCEPT !.HasChecksum = TRUE], r)
  ELSE parseWindowData(
         [w EXCEPT !.HasChecksum = TRUE,
                   !.Checksum = <<c.buf[1] * 256 + c.buf[2], c.buf[3] * 256 + c.buf[4]>>],
         ReadBuf(c.r, U32ToInt(w.DataSectionLength)), r)

\* lines 362-370, once ReadVarint has returned al
parseWindowAddressLength(w, al, r) ==
  IF al.err # "nil" THEN WindowResult(al.err, w, r)
  ELSE IF BitAnd(w.WinIndicator, VCDAdler32) # 0
  THEN parseWindowChecksum([w EXCEPT !.AddressSectionLength = al.val],
                           ReadBuf(al.r, 4), r)
  ELSE parseWindowData([w EXCEPT !.AddressSectionLength = al.val],
                       ReadBuf(al.r, U32ToInt(w.DataSectionLength)), r)

\* lines 355-360, once ReadVarint has returned il
parseWindowInstructionLength(w, il, r) ==
  IF il.err # "nil" THEN WindowResult(il.err, w, r)
  ELSE parseWindowAddressLength([w EXCEPT !.InstructionSectionLength = il.val],
                                ReadVarint(il.r), r)

\* lines 348-353, once ReadVarint has returned dl
parseWindowDataLength(w, dl, r) ==
  IF dl.err # "nil" THEN WindowResult(dl.err, w, r)
  ELSE parseWindowInstructionLength([w EXCEPT !.DataSectionLength = dl.val],
                                    ReadVarint(dl.r), r)

\* lines 341-346, once ReadByte has returned di: the byte is stored
parseWindowDeltaIndicator(w, di, r) ==
  IF di.err # "nil" THEN WindowResult(di.err, w, r)
  ELSE parseWindowDataLength([w EXCEPT !.DeltaIndicator = di.b], ReadVarint(di.r), r)

\* lines 334-339, once ReadVarint has returned ts
parseWindowTargetSize(w, ts, r) ==
  IF ts.err # "nil" THEN WindowResult(ts.err, w, r)
  ELSE parseWindowDeltaIndicator([w EXCEPT !.TargetWindowLength = ts.val],
                                 ReadByte(ts.r), r)

\* lines 325-332, once Read has returned dd: the rest is read from a reader
\* over the buffer, and the outer reader stays after the buffer's bytes
parseWindowDeltaData(w, dd) ==
  IF dd.err # "nil" THEN WindowResult(dd.err, w, dd.r)
  ELSE parseWindowTargetSize(w, ReadVarint(NewReader(dd.buf)), dd.r)

\* lines 318-327, once ReadVarint has returned ds
parseWindowDeltaSize(w, ds) ==
  IF ds.err # "nil" THEN WindowResult(ds.err, w, ds.r)
  ELSE parseWindowDeltaData([w EXCEPT !.DeltaEncodingLength = ds.val],
                            ReadBuf(ds.r, U32ToInt(ds.val)))

\* lines 311-315, once ReadVarint has returned ps
parseWindowSourcePos(w, ps) ==
  IF ps.err # "nil" THEN WindowResult(ps.err, w, ps.r)
  ELSE parseWindowDeltaSize([w EXCEPT !.SourceSegmentPosition = ps.val],
                            ReadVarint(ps.r))

\* lines 305-309, once ReadVarint has returned sz
parseWindowSourceSize(w, sz) ==
  IF sz.err # "nil" THEN WindowResult(sz.err, w, sz.r)
  ELSE parseWindowSourcePos([w EXCEPT !.SourceSegmentSize = sz.val], ReadVarint(sz.r))

\* a window indicator whose reserved bits are not looked at
parseWindowIndicator_AnyBits(ib) ==
  IF ib.err # "nil" THEN WindowResult("eof-window-indicator", ZeroWindow, ib.r)
  ELSE IF BitAnd(ib.b, VCDSource) # 0
  THEN parseWindowSourceSize([ZeroWindow EXCEPT !.WinIndicator = ib.b], ReadVarint(ib.r))
  ELSE parseWindowDeltaSize([ZeroWindow EXCEPT !.WinIndicator = ib.b], ReadVarint(ib.r))

\* lines 288-304, once ReadByte has returned ib
parseWindowIndicator(ib) ==
  IF ib.err # "nil" THEN WindowResult("eof-window-indicator", ZeroWindow, ib.r)
  ELSE IF BitAnd(ib.b, 255 - (VCDSource + VCDTarget + VCDAdler32)) # 0
  THEN WindowResult("reserved-window-bits", ZeroWindow, ib.r)
  ELSE IF BitAnd(ib.b, VCDSource) # 0
  THEN parseWindowSourceSize([ZeroWindow EXCEPT !.WinIndicator = ib.b], ReadVarint(ib.r))
  ELSE parseWindowDeltaSize([ZeroWindow EXCEPT !.WinIndicator = ib.b], ReadVarint(ib.r))

\* parseWindow(reader, window): the result carries the reader after the call
parseWindow(reader) ==
  IF RLen(reader) = 0 THEN WindowResult("io.EOF", ZeroWindow, reader)
  ELSE parseWindowIndicator(ReadByte(reader))

\* ------------------------------------------------------------------------
\* the instruction walker
\* ------------------------------------------------------------------------

\* n copies of the byte b
Repeat(b, n) == [k \in 1..n |-> b]

RuntimeInstruction(type, size, mode, data) ==
  [Type |-> type, Size |-> size, Mode |-> mode, Data |-> data]

\* the state of the walk: the error, the instructions so far, the
\* instruction stream and the data cursor
Walk(err, instructions, stream, dataIndex) ==
  [err |-> err, instructions |-> instructions, stream |-> stream,
   dataIndex |-> dataIndex]

\* a walker whose RUN leaves the data cursor where it was
parseSlotData_RunKeepsCursor(instruction, size, wk, dataSection) ==
  IF instruction.Type = Add
  THEN IF ~U32Small(size) \/ wk.dataIndex + U32ToInt(size) > Len(dataSection)
       THEN Walk("add-overrun", wk.instructions, wk.stream, wk.dataIndex)
       ELSE Walk("nil",
                 Append(wk.instructions,
                        RuntimeInstruction(Add, size, instruction.Mode,
                          SubSeq(dataSection, wk.dataIndex + 1,
                                 wk.dataIndex + U32ToInt(size)))),
                 wk.stream, wk.dataIndex + U32ToInt(size))
  ELSE IF instruction.Type = Run
  THEN IF wk.dataIndex >= Len(dataSection)
       THEN Walk("run-no-data", wk.instructions, wk.stream, wk.dataIndex)
       ELSE Walk("nil",
                 Append(wk.instructions,
                        RuntimeInstruction(Run, size, instruction.Mode,
                                           <<dataSection[wk.dataIndex + 1]>>)),
                 wk.stream, wk.dataIndex)
  ELSE Walk("nil",
            Append(wk.instructions,
                   RuntimeInstruction(instruction.Type, size, instruction.Mode, <<>>)),
            wk.stream, wk.dataIndex)

\* lines 439-467: the instruction with its size, by type
parseSlotData(instruction, size, wk, dataSection) ==
  IF instruction.Type = Add
  THEN IF ~U32Small(size) \/ wk.dataIndex + U32ToInt(size) > Len(dataSection)
       THEN Walk("add-overrun", wk.instructions, wk.stream, wk.dataIndex)
       ELSE Walk("nil",
                 Append(wk.instructions,
                        RuntimeInstruction(Add, size, instruction.Mode,
                          SubSeq(dataSection, wk.dataIndex + 1,
                                 wk.dataIndex + U32ToInt(size)))),
                 wk.stream, wk.dataIndex + U32ToInt(size))
  ELSE IF instruction.Type = Run
  THEN IF wk.dataIndex >= Len(dataSection)
       THEN Walk("run-no-data", wk.instructions, wk.stream, wk.dataIndex)
       ELSE Walk("nil",
                 Append(wk.instructions,
                        RuntimeInstruction(Run, size, instruction.Mode,
                                           <<dataSection[wk.dataIndex + 1]>>)),
                 wk.stream, wk.dataIndex + 1)
  ELSE Walk("nil",
            Append(wk.instructions,
                   RuntimeInstruction(instruction.Type, size, instruction.Mode, <<>>)),
            wk.stream, wk.dataIndex)

\* lines 430-437, once ReadVarint has returned sz for a size of 0
parseSlotSize(instruction, sz, wk, dataSection) ==
  IF sz.err # "nil"
  THEN Walk("size-read", wk.instructions, sz.r, wk.dataIndex)
  ELSE parseSlotData(instruction, sz.val,
                     Walk("nil", wk.instructions, sz.r, wk.dataIndex), dataSection)

\* lines 425-437: one slot of one code
parseSlot(instruction, wk, dataSection) ==
  IF instruction.Type = NoOp THEN wk
  ELSE IF instruction.Size = 0 /\ instruction.Type # NoOp
  THEN parseSlotSize(instruction, ReadVarint(wk.stream), wk, dataSection)
  ELSE parseSlotData(instruction, U32FromInt(instruction.Size), wk, dataSection)

RECURSIVE parseSlots(_, _, _, _)
\* lines 424-468: for slot := slot; slot < 2; slot++
parseSlots(code, slot, wk, dataSection) ==
  IF slot >= 2 \/ wk.err # "nil" THEN wk
  ELSE parseSlots(code, slot + 1, parseSlot(Get(code, slot), wk, dataSection),
                  dataSection)

RECURSIVE parseInstructionsLoop(_, _)
\* lines 415-469, once ReadByte has returned cb
parseInstructionsCode(cb, wk, dataSection) ==
  IF cb.err = "io.EOF" THEN wk
  ELSE parseInstructionsLoop(
         parseSlots(cb.b, 0, Walk("nil", wk.instructions, cb.r, wk.dataIndex),
                    dataSection),
         dataSection)

\* the loop of parseInstructions from the walk wk on
parseInstructionsLoop(wk, dataSection) ==
  IF wk.err # "nil" THEN wk
  ELSE parseInstructionsCode(ReadByte(wk.stream), wk, dataSection)

\* parseInstructions(instructionData, dataSection, addressCache); the address
\* cache is not touched by it
parseInstructions(instructionData, dataSection) ==
  parseInstructionsLoop(Walk("nil", <<>>, NewReader(instructionData), 0), dataSection)

\* ------------------------------------------------------------------------
\* ParseDelta
\* ------------------------------------------------------------------------

ParsedDelta(err, windows) == [err |-> err, Windows |-> windows]

RECURSIVE ParseDeltaLoop(_, _)

\* lines 216-221, once parseInstructions has returned pi
ParseDeltaInstructions(pi, reader, windows) ==
  IF pi.err # "nil" THEN ParsedDelta(pi.err, <<>>)
  ELSE ParseDeltaLoop(reader, windows)

\* a window loop that ends at any error of parseWindow, as if at io.EOF
ParseDeltaWindow_BreakOnError(pw, windows) ==
  IF pw.err # "nil" THEN ParsedDelta("nil", windows)
  ELSE ParseDeltaInstructions(
         parseInstructions(pw.w.InstructionSection, pw.w.DataSection),
         pw.r, Append(windows, pw.w))

\* lines 200-221, once parseWindow has returned pw
ParseDeltaWindow(pw, windows) ==
  IF pw.err # "nil"
  THEN IF pw.err = "io.EOF"
       THEN IF RLen(pw.r) > 0
            THEN ParsedDelta("malformed-bytes-remain", <<>>)
            ELSE ParsedDelta("nil", windows)
       ELSE ParsedDelta(pw.err, <<>>)
  ELSE ParseDeltaInstructions(
         parseInstructions(pw.w.InstructionSection, pw.w.DataSection),
         pw.r, Append(windows, pw.w))

\* the window loop of ParseDelta (lines 198-222)
ParseDeltaLoop(reader, windows) ==
  IF RLen(reader) > 0
  THEN ParseDeltaWindow(parseWindow(reader), windows)
  ELSE ParsedDelta("nil", windows)

\* lines 192-198, once parseHeader has returned h
ParseDeltaHeader(h) ==
  IF h.err # "nil" THEN ParsedDelta(h.err, <<>>)
  ELSE ParseDeltaLoop(h.r, <<>>)

\* ParseDelta(delta): the error and the windows of the parsed delta
ParseDelta(delta) ==
  IF Len(delta) < MinimumFileSize
  THEN ParsedDelta("ErrInvalidFormat", <<>>)
  ELSE ParseDeltaHeader(parseHeader(NewReader(delta)))

\* ------------------------------------------------------------------------
\* the executor
\* ------------------------------------------------------------------------

\* the state of an execution: kind is "ok", "err", "panic" (a slice
\* expression whose bounds are out of range) or "huge" (more than 2^16 bytes
\* would be appended: beyond the lengths of this model, and never produced by
\* the inputs enumerated below)
Exec(kind, err, target, ac) ==
  [kind |-> kind, err |-> err, target |-> target, ac |-> ac]

RECURSIVE copyFromTarget(_, _, _, _)
\* a COPY that appends a slice of the target as it stood before the COPY
copyFromTarget_Snapshot(target, targetAddr, size, i) ==
  [err |-> "nil",
   target |-> target \o SubSeq(target, targetAddr + 1,
                               Min(targetAddr + size, Len(target)))]

\* the byte-by-byte loop of decodeWindow (lines 148-154) from iteration i on
copyFromTarget(target, targetAddr, size, i) ==
  IF i >= size THEN [err |-> "nil", target |-> target]
  ELSE IF targetAddr + i >= Len(target)
  THEN [err |-> "copy-beyond-target", target |-> target]
  ELSE copyFromTarget(Append(target, target[targetAddr + i + 1]), targetAddr, size, i + 1)

\* lines 148-154, once the loop has returned c
execCopyLoop(c, ac) ==
  Exec(IF c.err = "nil" THEN "ok" ELSE "err", c.err, c.target, ac)

\* lines 140-155: targetAddr := addr - uint32(sourceLength)
execCopyTarget(targetAddr, size, target, ac) ==
  IF ~U32Lt(targetAddr, U32FromInt(Len(target)))
  THEN Exec("err", "copy-target-address", target, ac)
  ELSE IF ~U32Small(size) THEN Exec("huge", "nil", target, ac)
  ELSE execCopyLoop(copyFromTarget(target, U32ToInt(targetAddr), U32ToInt(size), 0), ac)

\* lines 133-138: end := addr + instruction.Size
execCopySource(addr, end, target, sourceSegment, ac) ==
  IF U32Lt(U32FromInt(Len(sourceSegment)), end)
  THEN Exec("err", "copy-out-of-bounds", target, ac)
  ELSE IF U32Lt(end, addr)
  THEN Exec("panic", "slice-bounds", target, ac)
  ELSE Exec("ok", "nil",
            target \o SubSeq(sourceSegment, U32ToInt(addr) + 1, U32ToInt(end)), ac)

\* lines 127-155, once DecodeAddress has returned da
execCopyAddress(da, size, target, sourceSegment) ==
  IF da.err # "nil" THEN Exec("err", da.err, target, da.ac)
  ELSE IF U32Lt(da.addr, U32FromInt(Len(sourceSegment)))
  THEN execCopySource(da.addr, U32Add(da.addr, size), target, sourceSegment, da.ac)
  ELSE execCopyTarget(U32Sub(da.addr, U32FromInt(Len(sourceSegment))), size, target,
                      da.ac)

\* a here that leaves out the length of the source segment
HereOf_TargetOnly(target, sourceSegment) == U32FromInt(Len(target))

\* the value of here at a COPY (line 125)
HereOf(target, sourceSegment) == U32FromInt(Len(target) + Len(sourceSegment))

\* the COPY case of decodeWindow (lines 123-155)
execCopy(instruction, target, sourceSegment, addressCache) ==
  execCopyAddress(
    DecodeAddress(addressCache, HereOf(target, sourceSegment), instruction.Mode),
    instruction.Size, target, sourceSegment)

\* one instruction of the loop of decodeWindow (lines 111-169)
execInstruction(instruction, target, sourceSegment, addressCache) ==
  IF instruction.Type = NoOp THEN Exec("ok", "nil", target, addressCache)
  ELSE IF instruction.Type = Add
  THEN IF ~U32Small(instruction.Size)
          \/ Len(instruction.Data) # U32ToInt(instruction.Size)
       THEN Exec("err", "ErrInvalidFormat", target, addressCache)
       ELSE Exec("ok", "nil", target \o instruction.Data, addressCache)
  ELSE IF instruction.Type = Copy
  THEN execCopy(instruction, target, sourceSegment, addressCache)
  ELSE IF instruction.Type = Run
  THEN IF Len(instruction.Data) # 1
       THEN Exec("err", "ErrInvalidFormat", target, addressCache)
       ELSE IF ~U32Small(instruction.Size)
       THEN Exec("huge", "nil", target, addressCache)
       ELSE Exec("ok", "nil",
                 target \o Repeat(instruction.Data[1], U32ToInt(instruction.Size)),
                 addressCache)
  ELSE Exec("err", "ErrInvalidFormat", target, addressCache)

RECURSIVE execLoop(_, _, _, _)
\* the instruction loop of decodeWindow (lines 110-170) from instruction k
\* on, x the execution so far
execLoop(instructions, k, x, sourceSegment) ==
  IF x.kind # "ok" \/ k > Len(instructions) THEN x
  ELSE execLoop(instructions, k + 1,
                execInstruction(instructions[k], x.target, sourceSegment, x.ac),
                sourceSegment)

Segment(kind, err, seg) == [kind |-> kind, err |-> err, seg |-> seg]

\* lines 94-100: start, end := start + size
sourceSlice(start, end, source) ==
  IF U32Lt(U32FromInt(Len(source)), end)
  THEN Segment("err", "ErrInvalidFormat", <<>>)
  ELSE IF U32Lt(end, start)
  THEN Segment("panic", "slice-bounds", <<>>)
  ELSE Segment("ok", "nil", SubSeq(source, U32ToInt(start) + 1, U32ToInt(end)))

\* the source segment of decodeWindow (lines 89-101)
sourceSegmentOf(window, source) ==
  IF BitAnd(window.WinIndicator, VCDSource) # 0
  THEN sourceSlice(window.SourceSegmentPosition,
                   U32Add(window.SourceSegmentPosition, window.SourceSegmentSize),
                   source)
  ELSE Segment("ok", "nil", <<>>)

WindowTarget(kind, err, target) == [kind |-> kind, err |-> err, target |-> target]

\* lines 172-180, once the instruction loop has returned x
decodeWindowChecksum(window, x) ==
  IF x.kind # "ok" THEN WindowTarget(x.kind, x.err, <<>>)
  ELSE IF window.HasChecksum /\ ComputeChecksum(U32(0, 1), x.target) # window.Checksum
  THEN WindowTarget("err", "checksum", <<>>)
  ELSE WindowTarget("ok", "nil", x.target)

\* lines 103-170, once parseInstructions has returned pi
decodeWindowInstructions(window, pi, sourceSegment) ==
  IF pi.err # "nil" THEN WindowTarget("err", pi.err, <<>>)
  ELSE decodeWindowChecksum(
         window,
         execLoop(pi.instructions, 1,
                  Exec("ok", "nil", <<>>,
                       Reset(NewAddressCache(NearCacheSize, SameCacheSize),
                             window.AddressSection)),
                  sourceSegment))

\* lines 89-107, once the source segment sg has been taken
decodeWindowSegment(window, sg) ==
  IF sg.kind # "ok" THEN WindowTarget(sg.kind, sg.err, <<>>)
  ELSE decodeWindowInstructions(
         window, parseInstructions(window.InstructionSection, window.DataSection),
         sg.seg)

\* decoder.decodeWindow(window, source): kind "ok" with the window's target,
\* "err" with an error, "panic", or "huge"
decodeWindow(window, source) ==
  decodeWindowSegment(window, sourceSegmentOf(window, source))

\* ------------------------------------------------------------------------
\* the inputs: sources and deltas
\* ------------------------------------------------------------------------

\* how many bytes X the RUN of a window that fills the same cache makes
SameRun == 798

\* how many ADDs and RUNs a generated window of literal data has
MaxOps == 2
\* how many DecodeAddress calls are made in one window on the cache of a window
MaxRingCalls == 6
\* how many DecodeAddress calls are made on a cache that is never Reset again
MaxAddrCalls == 2
\* how many Decode calls are made on one decoder
MaxCalls == 2
\* the largest COPY size of the self-referential windows
MaxCopy == 5
\* how many windows a generated multi-window delta has
MaxWindows == 2
\* the longest address stream given to a bare address cache
MaxAddrLen == 2
\* how many DecodeAddress calls are made on a bare address cache after a Reset
MaxCacheCalls == 2
\* the longest byte string given to ReadVarint
MaxVarintLen == 6
\* the longest generated data given to ComputeChecksum
MaxDataLen == 3

RECURSIVE VarintDigits(_)
\* the base-128 digits of a uint32, most significant first, no leading zero
VarintDigits(u) ==
  IF u[1] = 0 /\ u[2] < 128 THEN <<u[2]>>
  ELSE VarintDigits(<<u[1] \div 128, (u[2] \div 128) + (u[1] % 128) * 512>>)
       \o <<u[2] % 128>>

\* the minimal varint encoding of a uint32 (RFC 3284 section 2)
EncodeVarint(u) ==
  LET d == VarintDigits(u)
  IN  [k \in 1..Len(d) |-> IF k < Len(d) THEN d[k] + 128 ELSE d[k]]

V(n) == EncodeVarint(U32FromInt(n))

\* a window of a delta as an encoder would lay it out (RFC 3284 section 4.2,
\* 4.3, with the VCD_ADLER32 checksum after the section lengths)
WinDesc(ind, segSize, segPos, tlen, dind, data, inst, addr, ck) ==
  [ind |-> ind, segSize |-> segSize, segPos |-> segPos, tlen |-> tlen,
   dind |-> dind, data |-> data, inst |-> inst, addr |-> addr, ck |-> ck]

EncodeBody(w) ==
  V(w.tlen) \o <<w.dind>> \o V(Len(w.data)) \o V(Len(w.inst)) \o V(Len(w.addr))
  \o (IF BitAnd(w.ind, VCDAdler32) # 0 THEN w.ck ELSE <<>>)
  \o w.data \o w.inst \o w.addr

EncodeWindow(w) ==
  <<w.ind>>
  \o (IF BitAnd(w.ind, VCDSource + VCDTarget) # 0
      THEN EncodeVarint(w.segSize) \o EncodeVarint(w.segPos) ELSE <<>>)
  \o V(Len(EncodeBody(w))) \o EncodeBody(w)

RECURSIVE EncodeWindows(_)
EncodeWindows(ws) ==
  IF ws = <<>> THEN <<>> ELSE EncodeWindow(Head(ws)) \o EncodeWindows(Tail(ws))

HeaderBytes == <<VCDIFFMagic1, VCDIFFMagic2, VCDIFFMagic3, VCDIFFVersion, 0>>

SrcEmpty == <<>>
SrcABCDE == <<65, 66, 67, 68, 69>>
Sources == {SrcEmpty, SrcABCDE}

NoCk == <<0, 0, 0, 0>>
StrX == <<88>>
ByteX == StrX[1]
TEST == <<84, 69, 83, 84>>

\* the big-endian bytes of a uint32
BE(u) == <<u[1] \div 256, u[1] % 256, u[2] \div 256, u[2] % 256>>

\* b with bit k (0..31, 0 the least significant) of the 4-byte word toggled
FlipBit(ck, k) ==
  LET j == 4 - (k \div 8)
      m == 2 ^ (k % 8)
  IN  [ck EXCEPT ![j] = IF BitAnd(ck[j], m) # 0 THEN ck[j] - m ELSE ck[j] + m]

\* ADD of literal bytes with a declared target length
AddWins ==
  {WinDesc(0, U32Zero, U32Zero, tlen, 0, TEST, inst, <<>>, NoCk) :
     tlen \in {3, 4, 5}, inst \in {<<1, 4>>, <<5>>}}
  \cup {WinDesc(0, U32Zero, U32Zero, tlen, 0, <<ByteX>>, <<0, n>>, <<>>, NoCk) :
     tlen \in {0, 2}, n \in {0, 2}}

\* ADD of one byte X (or of "AB"), then a COPY of n bytes from the target:
\* SELF address t, or HERE offset len - t
SelfCopyWins ==
  {WinDesc(0, U32Zero, U32Zero, n + 1, 0, <<ByteX>>, <<2, 19, n>>, <<0>>, NoCk) :
     n \in 0..MaxCopy}
  \cup {WinDesc(0, U32Zero, U32Zero, n + 1, 0, <<ByteX>>, <<2, 35, n>>, <<1>>, NoCk) :
     n \in 1..MaxCopy}
  \cup {WinDesc(0, U32Zero, U32Zero, n + 2, 0, <<65, 66>>, <<3, 19, n>>, <<t>>, NoCk) :
     n \in 1..MaxCopy, t \in 0..2}
  \cup {WinDesc(0, U32Zero, U32Zero, 5, 0, <<ByteX>>, <<163>>, <<0>>, NoCk),
        WinDesc(0, U32Zero, U32Zero, 5, 0, <<ByteX>>, <<2, 20>>, <<0>>, NoCk)}

\* a source segment (position, size), then ADD X
SegPairs ==
  {<<U32Zero, U32(0, 5)>>, <<U32Zero, U32(0, 6)>>, <<U32(0, 2), U32(0, 3)>>,
   <<U32(0, 2), U32(0, 4)>>, <<U32(0, 5), U32Zero>>, <<U32(0, 6), U32Zero>>,
   <<U32Zero, U32Zero>>, <<U32(0, 1), U32Zero>>,
   <<U32(Half - 1, Half - 1), U32(0, 1)>>, <<U32(Half - 1, Half - 1), U32(0, 2)>>,
   <<U32(Half - 1, Half - 2), U32(0, 5)>>, <<U32(0, 3), U32(Half - 1, Half - 1)>>}

SegWins ==
  {WinDesc(VCDSource, p[2], p[1], 1, 0, <<ByteX>>, <<2>>, <<>>, NoCk) : p \in SegPairs}

\* COPY from the source segment: SELF address a, size n (a varint)
SrcCopyWins ==
  {WinDesc(VCDSource, U32(0, s), U32(0, p), n, 0, <<>>, <<19, n>>, <<a>>, NoCk) :
     s \in {3, 5}, p \in {0, 2}, n \in {1, 3, 4}, a \in {0, 2}}
  \cup {WinDesc(VCDSource, U32(0, 2), U32(0, 1), n + 1, 0, <<ByteX>>, <<2, 19, n>>,
                <<t>>, NoCk) : n \in 1..MaxCopy, t \in {1, 2, 3}}

\* VCD_ADLER32: ADD X with the right checksum and with each bit of it
\* toggled; an empty window likewise
CkX == BE(ComputeChecksum(U32(0, 1), <<ByteX>>))
CkEmpty == BE(ComputeChecksum(U32(0, 1), <<>>))

AdlerWins ==
  {WinDesc(VCDAdler32, U32Zero, U32Zero, 1, 0, <<ByteX>>, <<2>>, <<>>, ck) :
     ck \in {CkX} \cup {FlipBit(CkX, k) : k \in 0..31}}

EmptyAdlerWins ==
  {WinDesc(VCDAdler32, U32Zero, U32Zero, 0, 0, <<>>, <<>>, <<>>, ck) :
     ck \in {CkEmpty} \cup {FlipBit(CkEmpty, k) : k \in {0, 1, 8, 31}}}

EmptyWin == WinDesc(0, U32Zero, U32Zero, 0, 0, <<>>, <<>>, <<>>, NoCk)

\* win_indicator with VCD_TARGET, alone and with the other bits
TargetWins ==
  {WinDesc(ind, U32(0, s), U32Zero, 1, 0, <<ByteX>>, <<2>>, <<>>, CkX) :
     ind \in {2, 3, 6, 7}, s \in {0, 2}}

\* a non-zero delta_indicator
DeltaIndWins ==
  {WinDesc(0, U32Zero, U32Zero, 1, dind, <<ByteX>>, <<2>>, <<>>, NoCk) :
     dind \in {1, 2, 4, 255}}

\* a target long enough for addresses past the 768 entries of the same
\* cache: ADD "AB", RUN of X up to SameBase bytes, COPY 1 byte at SELF
\* address a, then COPY 1 byte in the same mode 6 + k with the address byte
\* b, where k * 256 + b = a mod 768
SameBase == <<65, 66>> \o Repeat(ByteX, SameRun)
SameAddrs == {1, 300, 767, 768, 770, SameRun + 1}
SameWin(a) ==
  WinDesc(0, U32Zero, U32Zero, Len(SameBase) + 2, 0, <<65, 66, ByteX>>,
          <<3, 0>> \o V(SameRun) \o <<19, 1, 19 + 16 * (6 + ((a % 768) \div 256)), 1>>,
          V(a) \o <<(a % 768) % 256>>, NoCk)
SameWins == {SameWin(a) : a \in SameAddrs}

\* a source segment of the whole of "ABCDE" and one COPY from it, at the SELF
\* address a with the size n, a uint32 written as a varint
OverAddrs == {0, 1, 2, 4}
OverSizes ==
  {U32(0, 1), U32(0, 4), U32(0, 6), U32(1, 0), U32(Half \div 2, 0),
   U32(Half - 1, Half - 4), U32(Half - 1, Half - 2), U32(Half - 1, Half - 1)}
OverWin(a, n) ==
  WinDesc(VCDSource, U32(0, Len(SrcABCDE)), U32Zero, 0, 0, <<>>,
          <<19>> \o EncodeVarint(n), <<a>>, NoCk)
OverWins == {OverWin(a, n) : a \in OverAddrs, n \in OverSizes}

\* one COPY of n bytes from the source segment (size s, position p) at the
\* SELF address a, as in SrcCopyWins
SrcCopyWin(s, p, a, n) ==
  WinDesc(VCDSource, U32(0, s), U32(0, p), n, 0, <<>>, <<19, n>>, <<a>>, NoCk)

\* a source segment (size s, position p), ADD X, then k COPYs of n bytes in
\* the mode HERE, each with the offset o
HereSizes == {3, 5}
HerePositions == {0, 2}
HereOffsets == 1..4
HereCopies == 1..2
HereSrcWin(s, p, o, n, k) ==
  WinDesc(VCDSource, U32(0, s), U32(0, p), 1 + k * n, 0, <<ByteX>>,
          <<2>> \o (IF k = 1 THEN <<35, n>> ELSE <<35, n, 35, n>>),
          IF k = 1 THEN <<o>> ELSE <<o, o>>, NoCk)
HereSrcWins ==
  {HereSrcWin(s, p, o, n, k) :
     s \in HereSizes, p \in HerePositions, o \in HereOffsets, n \in 1..2,
     k \in HereCopies}

\* windows of ADDs and RUNs over a data section: an ADD of 1..17 bytes is
\* the code size + 1, an ADD of 0 bytes the code 1 and a varint, a RUN the
\* code 0 and a varint
DataOp(t, n) == [t |-> t, n |-> n]
DataOps ==
  {DataOp("add", 0), DataOp("add", 1), DataOp("add", 2), DataOp("run", 0),
   DataOp("run", 2)}
EncodeOp(op) ==
  IF op.t = "run" THEN <<0>> \o V(op.n)
  ELSE IF op.n = 0 THEN <<1>> \o V(op.n)
  ELSE <<op.n + 1>>
RECURSIVE EncodeOps(_)
EncodeOps(ops) ==
  IF ops = <<>> THEN <<>> ELSE EncodeOp(Head(ops)) \o EncodeOps(Tail(ops))
OpSeqs == UNION {[1..n -> DataOps] : n \in 1..MaxOps}
OpData == {SubSeq(<<65, 66, 67>>, 1, n) : n \in 0..3}
OpsWin(ops, data) ==
  WinDesc(0, U32Zero, U32Zero, 0, 0, data, EncodeOps(ops), <<>>, NoCk)
OpsWins == {OpsWin(ops, data) : ops \in OpSeqs, data \in OpData}

WinPool ==
  AddWins \cup SelfCopyWins \cup SegWins \cup SrcCopyWins \cup AdlerWins
  \cup EmptyAdlerWins \cup {EmptyWin} \cup TargetWins \cup DeltaIndWins
  \cup SameWins \cup OverWins \cup HereSrcWins \cup OpsWins

\* the windows that multi-window deltas are made of
MultiPool ==
  {WinDesc(0, U32Zero, U32Zero, 4, 0, TEST, <<5>>, <<>>, NoCk),
   WinDesc(0, U32Zero, U32Zero, 3, 0, <<ByteX>>, <<2, 19, 2>>, <<0>>, NoCk),
   WinDesc(VCDSource, U32(0, 5), U32Zero, 2, 0, <<>>, <<19, 2>>, <<1>>, NoCk),
   WinDesc(VCDAdler32, U32Zero, U32Zero, 1, 0, <<ByteX>>, <<2>>, <<>>, CkX),
   WinDesc(VCDAdler32, U32Zero, U32Zero, 1, 0, <<ByteX>>, <<2>>, <<>>, FlipBit(CkX, 0)),
   WinDesc(VCDAdler32, U32Zero, U32Zero, 0, 0, <<>>, <<>>, <<>>, FlipBit(CkEmpty, 1)),
   EmptyWin}

RECURSIVE SeqsUpTo(_, _)
\* the sequences over S of length 2..n
SeqsUpTo(S, n) ==
  IF n < 2 THEN {}
  ELSE SeqsUpTo(S, n - 1) \cup [1..n -> S]

\* literal deltas of the repository's tests
RawSeedEmpty == <<214, 195, 196, 0, 0, 0, 0, 0, 4, 0, 0, 0, 0>>
RawSeedTEST == <<214, 195, 196, 0, 0, 0, 0, 5, 0, 4, 1, 0, 4, 1, 84, 69, 83, 84>>
RawTestDecode == <<214, 195, 196, 0, 0, 4, 9, 0, 0, 0, 0, 0, 0, 0, 0, 1>>
RawDeltas ==
  {RawSeedEmpty, RawSeedTEST, RawTestDecode, HeaderBytes,
   <<255, 255, 255>>, <<214, 195, 196>>, <<214, 195, 196, 153>>, <<>>}

\* ADD "TEST"; ADD X then COPY 2 from the start of the target
TestWin == WinDesc(0, U32Zero, U32Zero, 4, 0, TEST, <<5>>, <<>>, NoCk)
CopyWin == WinDesc(0, U32Zero, U32Zero, 3, 0, <<ByteX>>, <<2, 19, 2>>, <<0>>, NoCk)

\* a delta encoding written field by field, and a window around it whose
\* delta_encoding_length is the length of body followed by extra
BodyOf(tlen, dind, dl, il, al, sections) ==
  V(tlen) \o <<dind>> \o V(dl) \o V(il) \o V(al) \o sections
RawWindow(body, extra) == <<0>> \o V(Len(body) + Len(extra)) \o body \o extra

\* windows whose subregion is longer than its fields and sections, and
\* windows whose last section is declared longer than the bytes left
LeftoverWindows ==
  {RawWindow(BodyOf(1, 0, 1, 1, 0, <<ByteX, 2>>), extra) : extra \in {<<0>>, <<7, 7>>}}
  \cup {RawWindow(BodyOf(2, 0, 1, 3, 1, <<ByteX, 2, 19, 1, 0>>), <<9>>)}
ShortSectionWindows ==
  {RawWindow(BodyOf(0, 0, 1, 2, 0, <<ByteX, 1>>), <<>>),
   RawWindow(BodyOf(2, 0, 1, 3, 2, <<ByteX, 2, 19, 1, 0>>), <<>>),
   RawWindow(BodyOf(1, 0, 1, 1, 0, <<>>), <<>>),
   RawWindow(BodyOf(1, 0, 3, 1, 0, <<ByteX, 2>>), <<>>)}
SubregionDeltas ==
  {HeaderBytes \o w : w \in LeftoverWindows \cup ShortSectionWindows}
  \cup {HeaderBytes \o w \o EncodeWindow(TestWin) :
           w \in LeftoverWindows \cup ShortSectionWindows}

\* deltas that end inside the delta encoding of their last window
TruncatedDeltas ==
  {SubSeq(HeaderBytes \o EncodeWindow(TestWin), 1, n) :
     n \in (Len(HeaderBytes) + 2)..(Len(HeaderBytes \o EncodeWindow(TestWin)) - 1)}
  \cup {HeaderBytes \o EncodeWindow(TestWin) \o cut :
           cut \in {<<0, 5>>, <<0, 5, 4, 0>>, <<0, 9, 1, 0, 1, 1, 0, ByteX, 2>>}}
  \cup {HeaderBytes \o <<VCDSource, 0, 0, 7>>, HeaderBytes \o <<VCDAdler32, 9, 0, 0>>}

\* headers: short, wrong magic, wrong version, reserved indicator bits
HeaderDeltas ==
  {<<VCDIFFMagic1>>, <<VCDIFFMagic1, VCDIFFMagic2>>,
   <<VCDIFFMagic1, VCDIFFMagic2, VCDIFFMagic3, VCDIFFVersion>>,
   <<0, 0, 0, 0>>, <<0, 0, 0, 1>>, <<0, 0>>}
  \cup {h \o rest :
          h \in {<<215, 195, 196, 0>>, <<214, 0, 196, 0>>, <<214, 195, 0, 0>>,
                 <<214, 195, 196, 1>>, <<214, 195, 196, 255>>, <<0, 0, 0, 1>>,
                 <<196, 195, 214, 0>>, <<214, 195, 197, 1>>},
          rest \in {<<0>>, <<255>>, <<0>> \o EncodeWindow(TestWin)}}
  \cup {<<VCDIFFMagic1, VCDIFFMagic2, VCDIFFMagic3, VCDIFFVersion, ind>> \o rest :
          ind \in {8, 9, 16, 32, 64, 128, 248, 255},
          rest \in {<<>>, EncodeWindow(TestWin)}}

\* windows whose indicator has a reserved bit, alone and after a window
ReservedWins ==
  {WinDesc(ind, U32Zero, U32Zero, 1, 0, <<ByteX>>, <<2>>, <<>>, CkX) :
     ind \in {8, 9, 12, 16, 32, 64, 128, 248, 255}}
ReservedSeqs ==
  {<<w>> : w \in ReservedWins} \cup {<<TestWin, w>> : w \in ReservedWins}

\* header indicators with VCD_DECOMPRESS, VCD_CODETABLE or VCD_APPHEADER and
\* the payload RFC 3284 section 4.1 puts after them: a compressor id; a
\* length and that many bytes
FlagPayloads ==
  {<<VCDAppHeader, <<0>> >>, <<VCDAppHeader, <<1, 2>> >>, <<VCDAppHeader, <<2, 0, 5>> >>,
   <<VCDCodetable, <<0>> >>, <<VCDCodetable, <<1, 2>> >>,
   <<VCDDecompress, <<0>> >>, <<VCDDecompress, <<1>> >>,
   <<VCDDecompress + VCDAppHeader, <<1, 1, 2>> >>}
FlaggedDescs ==
  {[kind |-> "flagged",
    bytes |-> <<VCDIFFMagic1, VCDIFFMagic2, VCDIFFMagic3, VCDIFFVersion, f[1]>> \o f[2],
    wins |-> <<w>>] : f \in FlagPayloads, w \in {TestWin, CopyWin}}

\* a delta to decode: literal bytes, or a header and windows
Descs ==
  {[kind |-> "raw", bytes |-> b, wins |-> <<>>] :
     b \in RawDeltas \cup SubregionDeltas \cup TruncatedDeltas \cup HeaderDeltas}
  \cup {[kind |-> "windows", bytes |-> <<>>, wins |-> ws] : ws \in ReservedSeqs}
  \cup FlaggedDescs
  \cup {[kind |-> "windows", bytes |-> <<>>, wins |-> <<w>>] : w \in WinPool}
  \cup {[kind |-> "windows", bytes |-> <<>>, wins |-> ws] :
          ws \in SeqsUpTo(MultiPool, MaxWindows)}

\* the bytes of a delta
DeltaOf(d) ==
  IF d.kind = "raw" THEN d.bytes
  ELSE IF d.kind = "flagged" THEN d.bytes \o EncodeWindows(d.wins)
  ELSE HeaderBytes \o EncodeWindows(d.wins)

Deltas == [d \in Descs |-> DeltaOf(d)]

\* the deltas of the second and later calls on one decoder: deltas that
\* decode, that are rejected and that stop the call, of one window and of two
ReuseDescs ==
  {[kind |-> "windows", bytes |-> <<>>, wins |-> ws] :
     ws \in {<<TestWin>>, <<CopyWin>>, <<TestWin, CopyWin>>,
             <<WinDesc(VCDSource, U32(0, 5), U32Zero, 3, 0, <<>>, <<19, 3>>, <<2>>, NoCk)>>,
             <<WinDesc(VCDSource, U32(0, 1), U32(Half - 1, Half - 1), 1, 0, <<ByteX>>,
                       <<2>>, <<>>, NoCk)>>,
             <<WinDesc(VCDAdler32, U32Zero, U32Zero, 1, 0, <<ByteX>>, <<2>>, <<>>,
                       FlipBit(CkX, 0))>>}}
  \cup {[kind |-> "raw", bytes |-> b, wins |-> <<>>] : b \in {<<>>, RawSeedTEST}}

RECURSIVE SeqsTo(_, _)
\* the sequences over S of length 0..n
SeqsTo(S, n) == IF n <= 0 THEN {<<>>} ELSE SeqsTo(S, n - 1) \cup [1..n -> S]

\* address streams, values of here and modes for a bare address cache
AddrBytes == {0, 1, 128, 255}
AddrStreams == SeqsTo(AddrBytes, MaxAddrLen)
HereVals == {U32Zero, U32(0, 5)}
Modes == 0..9

\* address sections, here and modes for the cache of one window through
\* more resolutions than the near ring has slots
RingStreams ==
  {[k \in 1..MaxRingCalls |-> k], [k \in 1..MaxRingCalls |-> 1],
   [k \in 1..MaxRingCalls |-> ((3 * k) % 5) + 1]}
RingHere == U32(0, 100)
RingModes == {SelfMode, HereMode, 2, 3, 6}

\* address streams, here and modes for DecodeAddress calls that fail: empty
\* and truncated streams, offsets above here, every kind of mode and modes
\* that are none
FailStreams ==
  {<<>>, <<1>>, <<128>>, <<5, 1>>, <<1, 9>>, <<0, 0>>, <<3, 128>>,
   <<255, 255, 255, 255, 255, 1>>}
FailHere == {U32Zero, U32(0, 5)}
FailModes == 0..9 \cup {255}

\* the inputs of ReadVarint: the encodings of values around the length
\* boundaries with bytes after them, and arbitrary byte strings
RoundTripHalves == {0, 1, 127, 128, 16383, 16384, Half - 1}
RoundTripValues == {U32(hi, lo) : hi \in RoundTripHalves, lo \in RoundTripHalves}
Trailers == {<<>>, <<0>>, <<128>>, <<255, 1>>}
VarBytes == {0, 15, 127, 128, 255}
FnInput(fn, tag, bytes, n, seed) ==
  [fn |-> fn, tag |-> tag, bytes |-> bytes, n |-> n, seed |-> seed]
VarintInputs ==
  {FnInput("ReadVarint", "enc", EncodeVarint(n) \o tr, n, U32Zero) :
     n \in RoundTripValues, tr \in Trailers}
  \cup {FnInput("ReadVarint", "raw", b, U32Zero, U32Zero) :
     b \in SeqsTo(VarBytes, MaxVarintLen)}

\* the inputs of ComputeChecksum, with the seed 1 of the decoder
AdlerInputs ==
  {FnInput("ComputeChecksum", "raw", d, U32Zero, U32(0, 1)) :
     d \in SeqsTo({65, 66, 255}, MaxDataLen) \cup {SrcABCDE, TEST}}

\* the inputs of CodeTable.Get and of parseInstructions on one code: every
\* code of the table; the data section of the walk
TableData == [k \in 1..18 |-> 64 + k]
TableInputs ==
  {FnInput(fn, "raw", <<code>>, U32Zero, U32Zero) :
     fn \in {"Get", "parseInstructions"}, code \in 0..255}

\* ------------------------------------------------------------------------
\* state
\* ------------------------------------------------------------------------

VARIABLES
  source,   \* decoder.source, fixed by NewDecoder
  desc,     \* the delta of the current call as it was built
  delta,    \* the bytes of the delta of the current call
  pc,       \* "idle", "parse", "windows" (in the window loop), "done"
  windows,  \* parsed.Windows
  widx,     \* the window the loop of Decode is at (1-based)
  target,   \* the target accumulated by Decode
  outs,     \* the targets of the windows decoded so far, in order
  result,   \* the outcome of the current call
  calls,    \* the Decode calls made on this decoder
  prev,     \* how the call before the current one ended ("none" before it)
  cache,    \* an AddressCache used on its own
  log,      \* the DecodeAddress calls made on cache since its last Reset
  fin,      \* the input of a call of ReadVarint or ComputeChecksum
  fout      \* what that call returned

dvars == <<source, desc, delta, pc, windows, widx, target, outs, result, calls, prev>>
cvars == <<cache, log>>
pvars == <<fin, fout>>
vars == <<dvars, cvars, pvars>>

NoResult == [kind |-> "none", err |-> "nil", out |-> <<>>]
NoDesc == [kind |-> "raw", bytes |-> <<>>, wins |-> <<>>]
NoInput == FnInput("none", "raw", <<>>, U32Zero, U32Zero)
FnOutput(done, err, val, read) ==
  [done |-> done, err |-> err, val |-> val, read |-> read]
NoOutput == FnOutput(FALSE, "nil", U32Zero, 0)

\* ------------------------------------------------------------------------
\* Decode on a decoder handle
\* ------------------------------------------------------------------------

\* NewDecoder(source)
Init ==
  /\ source \in Sources
  /\ desc = NoDesc
  /\ delta = <<>>
  /\ pc = "idle"
  /\ windows = <<>>
  /\ widx = 0
  /\ target = <<>>
  /\ outs = <<>>
  /\ result = NoResult
  /\ calls = 0
  /\ prev = "none"
  /\ cache = Reset(NewAddressCache(NearCacheSize, SameCacheSize), <<>>)
  /\ log = <<>>
  /\ fin = NoInput
  /\ fout = NoOutput

\* a decoder whose Decode appends to the target of the call before
Call_KeepTarget(d) ==
  /\ pc \in {"idle", "done"}
  /\ calls < MaxCalls
  /\ calls = 0 \/ d \in ReuseDescs
  /\ desc' = d
  /\ delta' = Deltas[d]
  /\ pc' = "parse"
  /\ windows' = <<>>
  /\ widx' = 0
  /\ outs' = <<>>
  /\ result' = NoResult
  /\ calls' = calls + 1
  /\ prev' = result.kind
  /\ UNCHANGED <<source, target, cvars, pvars>>

\* a call of decoder.Decode(delta) begins: the first call on a decoder takes
\* any delta, a later call one of ReuseDescs
Call(d) ==
  /\ pc \in {"idle", "done"}
  /\ calls < MaxCalls
  /\ calls = 0 \/ d \in ReuseDescs
  /\ prev' = result.kind
  /\ desc' = d
  /\ delta' = Deltas[d]
  /\ pc' = "parse"
  /\ windows' = <<>>
  /\ widx' = 0
  /\ target' = <<>>
  /\ outs' = <<>>
  /\ result' = NoResult
  /\ calls' = calls + 1
  /\ UNCHANGED <<source, cvars, pvars>>

\* a Decode that drops the error of ParseDelta
DecodeParsed_IgnoreError(parsed) ==
  /\ windows' = parsed.Windows
  /\ widx' = 1
  /\ pc' = "windows"
  /\ UNCHANGED result

\* Decode lines 54-59, once ParseDelta has returned parsed
DecodeParsed(parsed) ==
  IF parsed.err # "nil"
  THEN /\ result' = [kind |-> "err", err |-> parsed.err, out |-> <<>>]
       /\ pc' = "done"
       /\ UNCHANGED <<windows, widx>>
  ELSE /\ windows' = parsed.Windows
       /\ widx' = 1
       /\ pc' = "windows"
       /\ UNCHANGED result

\* Decode lines 53-59: ParseDelta, then the empty target
DecodeParse ==
  /\ pc = "parse"
  /\ DecodeParsed(ParseDelta(delta))
  /\ UNCHANGED <<source, desc, delta, target, outs, calls, prev, cvars, pvars>>

\* Decode lines 64-69, once decodeWindow has returned wt
DecodeWindowTarget(wt) ==
  IF wt.kind # "ok"
  THEN /\ result' = [kind |-> wt.kind, err |-> wt.err, out |-> <<>>]
       /\ pc' = "done"
       /\ UNCHANGED <<widx, target, outs>>
  ELSE /\ target' = target \o wt.target
       /\ outs' = Append(outs, wt.target)
       /\ widx' = widx + 1
       /\ UNCHANGED <<result, pc>>

\* Decode lines 61-70: one iteration of the window loop
DecodeWindow ==
  /\ pc = "windows"
  /\ widx <= Len(windows)
  /\ DecodeWindowTarget(decodeWindow(windows[widx], source))
  /\ UNCHANGED <<source, desc, delta, windows, calls, prev, cvars, pvars>>

\* Decode line 72: return target, nil
DecodeReturn ==
  /\ pc = "windows"
  /\ widx > Len(windows)
  /\ result' = [kind |-> "ok", err |-> "nil", out |-> target]
  /\ pc' = "done"
  /\ UNCHANGED <<source, desc, delta, windows, widx, target, outs, calls, prev, cvars, pvars>>

Next ==
  \/ \E d \in Descs : Call(d)
  \/ DecodeParse
  \/ DecodeWindow
  \/ DecodeReturn

Spec == Init /\ [][Next]_vars

RECURSIVE DecodeWindows(_, _, _, _)
\* Decode(source, delta): NewDecoder(source).Decode(delta) on a decoder of
\* its own, as one function of source and delta
DecodeWindowsNext(wt, ws, i, src, tgt) ==
  IF wt.kind # "ok"
  THEN [kind |-> wt.kind, err |-> wt.err, out |-> <<>>]
  ELSE DecodeWindows(ws, i + 1, src, tgt \o wt.target)
DecodeWindows(ws, i, src, tgt) ==
  IF i > Len(ws)
  THEN [kind |-> "ok", err |-> "nil", out |-> tgt]
  ELSE DecodeWindowsNext(decodeWindow(ws[i], src), ws, i, src, tgt)
DecodeOf(parsed, src) ==
  IF parsed.err # "nil"
  THEN [kind |-> "err", err |-> parsed.err, out |-> <<>>]
  ELSE DecodeWindows(parsed.Windows, 1, src, <<>>)
Decode(src, d) == DecodeOf(ParseDelta(d), src)

\* ------------------------------------------------------------------------
\* an address cache on its own: Reset, then DecodeAddress calls
\* ------------------------------------------------------------------------

\* NewAddressCache(nearSize, sameSize) and Reset(addresses), as decodeWindow
\* makes them (line 83) and as FuzzAddressCache does (NewAddressCache(4, 3))
InitCache ==
  /\ source = SrcEmpty
  /\ desc = NoDesc
  /\ delta = <<>>
  /\ pc = "idle"
  /\ windows = <<>>
  /\ widx = 0
  /\ target = <<>>
  /\ outs = <<>>
  /\ result = NoResult
  /\ calls = 0
  /\ prev = "none"
  /\ \E sameSize \in {3, SameCacheSize}, addresses \in AddrStreams :
       cache = Reset(NewAddressCache(NearCacheSize, sameSize), addresses)
  /\ log = <<>>
  /\ fin = NoInput
  /\ fout = NoOutput

\* AddressCache.Reset(addresses) for a new window
CacheReset(addresses) ==
  /\ log # <<>>
  /\ cache' = Reset(cache, addresses)
  /\ log' = <<>>
  /\ UNCHANGED <<dvars, pvars>>

\* the record of a call: what was asked, what came back, and the cache and
\* its stream position before the call
CallRecord(here, mode, before, da) ==
  [here |-> here, mode |-> mode, err |-> da.err, addr |-> da.addr,
   before |-> before, from |-> before.addressStream.i, to |-> da.ac.addressStream.i]

\* once DecodeAddress has returned da
CacheDecoded(here, mode, da) ==
  /\ cache' = da.ac
  /\ log' = Append(log, CallRecord(here, mode, cache, da))

\* AddressCache.DecodeAddress(here, mode)
CacheDecode(here, mode) ==
  /\ Len(log) < MaxCacheCalls
  /\ CacheDecoded(here, mode, DecodeAddress(cache, here, mode))
  /\ UNCHANGED <<dvars, pvars>>

NextCache ==
  \/ \E addresses \in AddrStreams : CacheReset(addresses)
  \/ \E here \in HereVals, mode \in Modes : CacheDecode(here, mode)

SpecCache == InitCache /\ [][NextCache]_vars

\* ------------------------------------------------------------------------
\* the address cache of decodeWindow over the windows of a delta
\* ------------------------------------------------------------------------

\* decodeWindow lines 83-84 for the first window
InitRing ==
  /\ source = SrcEmpty
  /\ desc = NoDesc
  /\ delta = <<>>
  /\ pc = "idle"
  /\ windows = <<>>
  /\ widx = 0
  /\ target = <<>>
  /\ outs = <<>>
  /\ result = NoResult
  /\ calls = 0
  /\ prev = "none"
  /\ \E addresses \in RingStreams :
       cache = Reset(NewAddressCache(NearCacheSize, SameCacheSize), addresses)
  /\ log = <<>>
  /\ fin = NoInput
  /\ fout = NoOutput

\* a decoder that keeps one cache for all the windows and only hands it the
\* address section of the next window
RingReset_SharedCache(addresses) ==
  /\ log # <<>>
  /\ cache' = [cache EXCEPT !.addressStream = NewReader(addresses)]
  /\ log' = <<>>
  /\ UNCHANGED <<dvars, pvars>>

\* decodeWindow lines 83-84 for the next window: a new cache, Reset with the
\* address section of that window
RingReset(addresses) ==
  /\ log # <<>>
  /\ cache' = Reset(NewAddressCache(NearCacheSize, SameCacheSize), addresses)
  /\ log' = <<>>
  /\ UNCHANGED <<dvars, pvars>>

\* decodeWindow line 126: DecodeAddress for a COPY of the window
RingDecode(mode) ==
  /\ Len(log) < MaxRingCalls
  /\ CacheDecoded(RingHere, mode, DecodeAddress(cache, RingHere, mode))
  /\ UNCHANGED <<dvars, pvars>>

NextRing ==
  \/ \E addresses \in RingStreams : RingReset(addresses)
  \/ \E mode \in RingModes : RingDecode(mode)

SpecRing == InitRing /\ [][NextRing]_vars

\* ------------------------------------------------------------------------
\* DecodeAddress calls on one cache, as FuzzAddressCache makes them
\* ------------------------------------------------------------------------

\* NewAddressCache and Reset(addresses)
InitAddr ==
  /\ source = SrcEmpty
  /\ desc = NoDesc
  /\ delta = <<>>
  /\ pc = "idle"
  /\ windows = <<>>
  /\ widx = 0
  /\ target = <<>>
  /\ outs = <<>>
  /\ result = NoResult
  /\ calls = 0
  /\ prev = "none"
  /\ \E sameSize \in {3, SameCacheSize}, addresses \in FailStreams :
       cache = Reset(NewAddressCache(NearCacheSize, sameSize), addresses)
  /\ log = <<>>
  /\ fin = NoInput
  /\ fout = NoOutput

\* cache.DecodeAddress(here, mode)
AddrDecode(here, mode) ==
  /\ Len(log) < MaxAddrCalls
  /\ CacheDecoded(here, mode, DecodeAddress(cache, here, mode))
  /\ UNCHANGED <<dvars, pvars>>

NextAddr == \E here \in FailHere, mode \in FailModes : AddrDecode(here, mode)

SpecAddr == InitAddr /\ [][NextAddr]_vars

\* ------------------------------------------------------------------------
\* ReadVarint and ComputeChecksum on their own
\* ------------------------------------------------------------------------

InitFn ==
  /\ source = SrcEmpty
  /\ desc = NoDesc
  /\ delta = <<>>
  /\ pc = "idle"
  /\ windows = <<>>
  /\ widx = 0
  /\ target = <<>>
  /\ outs = <<>>
  /\ result = NoResult
  /\ calls = 0
  /\ prev = "none"
  /\ cache = Reset(NewAddressCache(NearCacheSize, SameCacheSize), <<>>)
  /\ log = <<>>
  /\ fin \in VarintInputs \cup AdlerInputs \cup TableInputs
  /\ fout = NoOutput

\* once ReadVarint has returned v: the error, the value, and the bytes the
\* reader has consumed
VarintRead(v) == fout' = FnOutput(TRUE, v.err, v.val, v.r.i)

\* ReadVarint(bytes.NewReader(data))
CallReadVarint ==
  /\ fin.fn = "ReadVarint"
  /\ ~fout.done
  /\ VarintRead(ReadVarint(NewReader(fin.bytes)))
  /\ UNCHANGED <<dvars, cvars, fin>>

\* ComputeChecksum(seed, data)
CallComputeChecksum ==
  /\ fin.fn = "ComputeChecksum"
  /\ ~fout.done
  /\ fout' = FnOutput(TRUE, "nil", ComputeChecksum(fin.seed, fin.bytes), 0)
  /\ UNCHANGED <<dvars, cvars, fin>>

\* DefaultCodeTable.Get(code, 0) and DefaultCodeTable.Get(code, 1)
CallGet ==
  /\ fin.fn = "Get"
  /\ ~fout.done
  /\ fout' = FnOutput(TRUE, "nil", <<Get(fin.bytes[1], 0), Get(fin.bytes[1], 1)>>, 0)
  /\ UNCHANGED <<dvars, cvars, fin>>

\* once parseInstructions has returned the walk wk
InstructionsParsed(wk) == fout' = FnOutput(TRUE, wk.err, wk.instructions, wk.dataIndex)

\* parseInstructions(instructionData, dataSection, cache) on a single code
CallParseInstructions ==
  /\ fin.fn = "parseInstructions"
  /\ ~fout.done
  /\ InstructionsParsed(parseInstructions(fin.bytes, TableData))
  /\ UNCHANGED <<dvars, cvars, fin>>

NextFn == CallReadVarint \/ CallComputeChecksum \/ CallGet \/ CallParseInstructions

SpecFn == InitFn /\ [][NextFn]_vars

\* ------------------------------------------------------------------------
\* properties
\* ------------------------------------------------------------------------

\* a Decode call has returned
Done == pc = "done"
\* the call decoded a delta made of windows; of one window
OfWindows == desc.kind = "windows"
OneWindow == OfWindows /\ Len(desc.wins) = 1
\* the windows of the delta of the call
Wins == 1..Len(desc.wins)

\* position + size as unbounded integers exceeds n (n < 2^16)
SumExceeds(position, size, n) ==
  \/ position[1] + size[1] > 0
  \/ position[2] + size[2] > n

\* C1: no delta and no source make Decode panic: it returns bytes or an error.
C1_DecodeNeverPanics == result.kind # "panic"

\* C2: when Decode succeeds, every window produced exactly the number of
\* bytes its target_window_length declares (a window whose instructions
\* produce another number of bytes makes Decode return an error).
C2_LengthMismatchRejected ==
  (Done /\ result.kind = "ok") =>
    \A k \in 1..Len(outs) :
      /\ k <= Len(windows)
      /\ windows[k].TargetWindowLength = U32FromInt(Len(outs[k]))

\* C3: when Decode succeeds, every window of the delta that carries
\* VCD_ADLER32, the last and an empty one included, was decoded to a target
\* whose Adler-32 (seed 1) is the stored checksum: a delta with any bit of a
\* stored checksum flipped fails.
C3_ChecksumEveryWindow ==
  (Done /\ OfWindows /\ result.kind = "ok") =>
    \A k \in Wins :
      BitAnd(desc.wins[k].ind, VCDAdler32) # 0 =>
        /\ k <= Len(outs)
        /\ desc.wins[k].ck = BE(ComputeChecksum(U32(0, 1), outs[k]))

\* a window that is ADD of its data, then one COPY of n bytes in mode SELF
\* (code 19) or HERE (code 35), with a one-byte address
AddThenCopy(w) ==
  /\ w.ind \in {0, VCDSource}
  /\ Len(w.inst) = 3
  /\ w.inst[1] = Len(w.data) + 1
  /\ w.inst[2] \in {19, 35}
  /\ Len(w.addr) = 1
\* the length of its source segment, the size of the COPY and the target
\* offset the COPY starts at
SegLenOf(w) == IF w.ind = VCDSource THEN w.segSize[2] ELSE 0
CopySizeOf(w) == w.inst[3]
CopyFromOf(w) ==
  IF w.inst[2] = 19 THEN w.addr[1] - SegLenOf(w)
  ELSE Len(w.data) - w.addr[1]
\* its source segment lies in the source, and the COPY starts in the target
\* bytes already produced
CopyInTarget(w) ==
  /\ AddThenCopy(w)
  /\ w.segPos[1] = 0 /\ w.segSize[1] = 0
  /\ w.ind = VCDSource => w.segPos[2] + w.segSize[2] <= Len(source)
  /\ CopyFromOf(w) >= 0
  /\ CopyFromOf(w) < Len(w.data)

\* C4: a COPY of n bytes from target offset t < len(target) appends n bytes,
\* the i-th equal to the byte at target position t + i as the target stands
\* after the bytes appended before it; so ADD of one byte X then a COPY of n
\* from offset 0 gives n + 1 copies of X.
C4_CopyByteByByte ==
  (Done /\ OneWindow /\ CopyInTarget(desc.wins[1])) =>
    /\ result.kind = "ok"
    /\ Len(result.out) = Len(desc.wins[1].data) + CopySizeOf(desc.wins[1])
    /\ SubSeq(result.out, 1, Len(desc.wins[1].data)) = desc.wins[1].data
    /\ \A i \in 1..CopySizeOf(desc.wins[1]) :
         result.out[Len(desc.wins[1].data) + i]
           = result.out[CopyFromOf(desc.wins[1]) + i]
    /\ (Len(desc.wins[1].data) = 1 /\ CopyFromOf(desc.wins[1]) = 0) =>
         result.out = [k \in 1..(CopySizeOf(desc.wins[1]) + 1) |-> desc.wins[1].data[1]]

\* the COPY of MaxCopy bytes from offset 0 after ADD X has been decoded
C4_Witness ==
  /\ Done /\ OneWindow /\ CopyInTarget(desc.wins[1])
  /\ desc.wins[1].data = <<ByteX>>
  /\ CopySizeOf(desc.wins[1]) = MaxCopy
  /\ CopyFromOf(desc.wins[1]) = 0
  /\ result.out = [k \in 1..(MaxCopy + 1) |-> ByteX]

\* C5: a delta with a VCD_SOURCE window whose position + size, as unbounded
\* integers, exceeds the length of the source makes Decode return an error,
\* also when the 32-bit sum wraps.
C5_SegmentBeyondSource ==
  (Done /\ OfWindows
     /\ \E k \in Wins :
          /\ BitAnd(desc.wins[k].ind, VCDSource) # 0
          /\ SumExceeds(desc.wins[k].segPos, desc.wins[k].segSize, Len(source)))
  => result.kind = "err"

\* the 18-byte seed has been decoded with the empty source
SeedTESTDone == Done /\ delta = RawSeedTEST /\ source = SrcEmpty

SeedEmptyDone == Done /\ delta = RawSeedEmpty

Resolved(k) == {j \in 1..k : log[j].err = "nil"}

\* C8: on a fresh cache, after a SELF resolution of address A, DecodeAddress
\* in mode 2 with offset 0 succeeds and resolves to A, for every A (0
\* included); and a near lookup fails as unpopulated only for a slot that no
\* resolution has written since the Reset.
C8_NearReuse ==
  /\ (/\ Len(log) >= 2
      /\ log[1].mode = SelfMode /\ log[1].err = "nil"
      /\ log[2].mode = 2
      /\ log[2].from < Len(cache.addressStream.s)
      /\ cache.addressStream.s[log[2].from + 1] = 0)
     => (log[2].err = "nil" /\ log[2].addr = log[1].addr)
  /\ \A k \in 1..Len(log) :
       log[k].err = "near-uninitialized" =>
         Cardinality(Resolved(k - 1)) <= log[k].mode - 2

\* C9: a delta with a window whose win_indicator has VCD_TARGET makes Decode
\* return an error, and no such window is in the parsed window list.
C9_TargetWindowRejected ==
  /\ \A k \in 1..Len(windows) : BitAnd(windows[k].WinIndicator, VCDTarget) = 0
  /\ (Done /\ OfWindows /\ \E k \in Wins : BitAnd(desc.wins[k].ind, VCDTarget) # 0)
     => result.kind = "err"

\* C10: a delta with a window whose delta_indicator is not 0 makes Decode
\* return an error, and no such window is in the parsed window list.
C10_DeltaIndicatorRejected ==
  /\ \A k \in 1..Len(windows) : windows[k].DeltaIndicator = 0
  /\ (Done /\ OfWindows /\ \E k \in Wins : desc.wins[k].dind # 0)
     => result.kind = "err"

\* a call of ReadVarint has returned
VarintDone == fin.fn = "ReadVarint" /\ fout.done
\* the positions among the first n bytes of the input whose high bit is clear
Terminators(n) == {k \in 1..Min(n, Len(fin.bytes)) : fin.bytes[k] < VarintContinuationBit}
\* the first of them
FirstTerminator(n) == CHOOSE k \in Terminators(n) : \A j \in Terminators(n) : k <= j

\* C17: ReadVarint returns an error and the value 0 when the input ends
\* before a byte with the high bit clear (the empty input included) and when
\* the first five bytes all have the high bit set; it reads at most five
\* bytes.
C17_VarintErrors ==
  VarintDone =>
    /\ fout.read <= MaxVarintBytes
    /\ Terminators(MaxVarintBytes) = {} =>
         /\ fout.err # "nil"
         /\ fout.val = U32Zero
         /\ fout.err = (IF Len(fin.bytes) < MaxVarintBytes
                        THEN "varint-eof" ELSE "varint-too-long")

\* six continuation bytes have been read: an error after five bytes
C17_Witness ==
  /\ VarintDone
  /\ fin.bytes = <<255, 255, 255, 255, 255, 255>>
  /\ fout.err = "varint-too-long"
  /\ fout.read = MaxVarintBytes

Digit(k) == fin.bytes[k] % 128
\* their value d1*128^4 + ... + d5 modulo 2^32, as <<hi, lo>>
FiveDigitsMod32 ==
  U32((Digit(1) % 16) * 4096 + Digit(2) * 32 + (Digit(3) \div 4),
      (Digit(3) % 4) * 16384 + Digit(4) * 128 + Digit(5))
\* the input is a terminated 5-byte varint
FiveByteVarint ==
  /\ Len(fin.bytes) >= 5
  /\ \A k \in 1..4 : fin.bytes[k] >= VarintContinuationBit
  /\ fin.bytes[5] < VarintContinuationBit

\* C19: a terminated 5-byte varint is accepted whatever its 35-bit value,
\* and ReadVarint returns that value modulo 2^32; FF FF FF FF 0F returns
\* 4294967183 (0xFFFFFF8F).
C19_FiveByteModulo ==
  (VarintDone /\ FiveByteVarint) =>
    /\ fout.err = "nil"
    /\ fout.val = FiveDigitsMod32
    /\ fin.bytes = <<255, 255, 255, 255, 15>> => fout.val = U32(65535, 65423)

\* FF FF FF FF 0F has been read
C19_Witness ==
  /\ VarintDone
  /\ fin.bytes = <<255, 255, 255, 255, 15>>
  /\ fout.err = "nil"
  /\ fout.val = U32(65535, 65423)

\* a call of ComputeChecksum with seed 1 has returned
AdlerDone == fin.fn = "ComputeChecksum" /\ fout.done /\ fin.seed = U32(0, 1)

\* C20 as stated: ComputeChecksum(1, empty) is 1 and ComputeChecksum(1,
\* "ABCDE") is 0x057E0196.
C20_AdlerKnownValues ==
  AdlerDone =>
    /\ fin.bytes = <<>> => fout.val = U32(0, 1)
    /\ fin.bytes = SrcABCDE => fout.val = U32(1406, 406)

\* C20 amended: ComputeChecksum(1, empty) is 1 and ComputeChecksum(1,
\* "ABCDE") is 0x03E80150 (s1 = 336, s2 = 1000).
C20_AdlerABCDE ==
  AdlerDone =>
    /\ fin.bytes = <<>> => fout.val = U32(0, 1)
    /\ fin.bytes = SrcABCDE => fout.val = U32(1000, 336)

C20_Witness == AdlerDone /\ fin.bytes = SrcABCDE /\ fout.val = U32(1000, 336)

\* the bytes a parsed window accounts for inside its subregion: the target
\* length, the delta indicator, the three section lengths (each varint in
\* its minimal encoding, as in every delta enumerated here), the checksum,
\* and the three sections as declared
AccountedFor(w) ==
  Len(EncodeVarint(w.TargetWindowLength)) + 1
  + Len(EncodeVarint(w.DataSectionLength))
  + Len(EncodeVarint(w.InstructionSectionLength))
  + Len(EncodeVarint(w.AddressSectionLength))
  + (IF w.HasChecksum THEN 4 ELSE 0)
  + U32ToInt(w.DataSectionLength) + U32ToInt(w.InstructionSectionLength)
  + U32ToInt(w.AddressSectionLength)

\* C11: a window is parsed successfully only if the bytes its fields and
\* declared sections account for equal its delta_encoding_length: no section
\* is declared longer than the bytes left in the subregion, and no byte of
\* the subregion is left over after the address section.
C11_SubregionExact ==
  \A k \in 1..Len(windows) :
    U32FromInt(AccountedFor(windows[k])) = windows[k].DeltaEncodingLength

\* C12: a delta in which a window's delta_encoding_length exceeds the bytes
\* that remain after it (none remaining included) is never parsed
\* successfully, and Decode returns an error.
C12_TruncatedRejected ==
  delta \in TruncatedDeltas =>
    /\ pc # "windows"
    /\ Done => result.kind = "err"

\* the concatenation of the targets of windows that are each the empty
\* window or ADD "TEST"
RECURSIVE TestsOf(_)
TestsOf(ws) ==
  IF ws = <<>> THEN <<>>
  ELSE (IF Head(ws) = TestWin THEN TEST ELSE <<>>) \o TestsOf(Tail(ws))

\* C13: an empty window is accepted and emits nothing wherever it occurs: a
\* delta made of empty windows and ADD "TEST" windows, in any order, decodes
\* to the concatenation of the "TEST"s.
C13_EmptyWindowAccepted ==
  (Done /\ OfWindows /\ \A k \in Wins : desc.wins[k] \in {EmptyWin, TestWin})
  => (result.kind = "ok" /\ result.out = TestsOf(desc.wins))

\* C14: when the header indicator has VCD_DECOMPRESS, VCD_CODETABLE or
\* VCD_APPHEADER, ParseDelta returns an error or parses exactly the windows
\* that follow the flags' payload: no payload byte is parsed as a window.
C14_HeaderPayloadSkipped ==
  (desc.kind = "flagged" /\ pc = "windows") =>
    /\ Len(windows) = Len(desc.wins)
    /\ \A k \in 1..Len(windows) :
         /\ windows[k].WinIndicator = desc.wins[k].ind
         /\ windows[k].DataSection = desc.wins[k].data
         /\ windows[k].InstructionSection = desc.wins[k].inst
         /\ windows[k].AddressSection = desc.wins[k].addr

\* the header indicator of the delta, or a window indicator of it, has a
\* bit outside 0x07
HeaderReserved == Len(delta) >= 5 /\ BitAnd(delta[5], 248) # 0
WindowReserved == OfWindows /\ \E k \in Wins : BitAnd(desc.wins[k].ind, 248) # 0
\* magic and version of the delta are right
HeaderPrefixOk ==
  /\ Len(delta) >= 4
  /\ SubSeq(delta, 1, 3) = VCDIFFMagic
  /\ delta[4] = VCDIFFVersion

\* C15: a delta whose header indicator or one of whose window indicators has
\* a bit outside 0x07 is never parsed successfully, Decode returns an error,
\* and the error is that of the indicator (nothing after it is read) when
\* everything before it is well-formed.
C15_ReservedBitsRejected ==
  (HeaderReserved \/ WindowReserved) =>
    /\ pc # "windows"
    /\ Done => result.kind = "err"
    /\ (Done /\ HeaderReserved /\ HeaderPrefixOk) => result.err = "reserved-header-bits"
    /\ (Done /\ WindowReserved) => result.err = "reserved-window-bits"

\* a window with indicator 0x08 after a well-formed window has been rejected
C15_Witness ==
  /\ Done /\ OfWindows /\ Len(desc.wins) = 2
  /\ desc.wins[1] = TestWin
  /\ desc.wins[2].ind = 8
  /\ result.err = "reserved-window-bits"

\* C16: a delta whose first three bytes are not D6 C3 C4, or whose fourth
\* byte is not 00, or that ends before the header indicator, is never parsed
\* successfully and Decode returns an error; the magic is checked before
\* the version, and the version before the header indicator.
C16_HeaderRejected ==
  (~HeaderPrefixOk \/ Len(delta) < 5) =>
    /\ pc # "windows"
    /\ Done => result.kind = "err"
    /\ (Done /\ Len(delta) >= 4 /\ SubSeq(delta, 1, 3) # VCDIFFMagic)
         => result.err = "bad-magic"
    /\ (Done /\ Len(delta) >= 4 /\ SubSeq(delta, 1, 3) = VCDIFFMagic
          /\ delta[4] # VCDIFFVersion)
         => result.err = "bad-version"

\* a delta with a wrong version and reserved indicator bits has been
\* rejected for its version
C16_Witness ==
  /\ Done
  /\ delta = <<214, 195, 196, 1, 255>>
  /\ result.err = "bad-version"

\* C21: every call of Decode on one decoder ends as Decode(source, delta) on
\* a decoder of its own does, whatever the calls before it were and however
\* they ended, and no step of a call changes the bytes of source.
C21_ReuseDeterministic ==
  /\ [](Done => result = Decode(source, delta))
  /\ [][source' = source]_vars

\* a second call on a decoder has decoded "TEST" after a first call that was
\* rejected, and one after a first call that did not return
C21_Witness ==
  /\ Done /\ calls = 2
  /\ prev \in {"err", "panic"}
  /\ result.kind = "ok" /\ result.out # <<>>

RECURSIVE WindowFailsFrom(_, _)
\* a window that begins at the reader, or one after it, does not parse (its
\* fields, its sections or its instructions) or does not execute on src
WindowFailsAfter(pw, src) ==
  \/ pw.err # "nil"
  \/ parseInstructions(pw.w.InstructionSection, pw.w.DataSection).err # "nil"
  \/ decodeWindow(pw.w, src).kind # "ok"
  \/ WindowFailsFrom(pw.r, src)
WindowFailsFrom(reader, src) ==
  RLen(reader) > 0 /\ WindowFailsAfter(parseWindow(reader), src)
AWindowFails ==
  /\ Len(delta) >= MinimumFileSize
  /\ parseHeader(NewReader(delta)).err = "nil"
  /\ WindowFailsFrom(parseHeader(NewReader(delta)).r, source)

\* C22: whenever a window of the delta fails to parse or to execute, Decode
\* returns no bytes and an error, whatever the windows before it produced;
\* whenever Decode returns no error it returns its target.
C22_AllOrNothing ==
  Done =>
    /\ AWindowFails =>
         /\ result.kind = "err"
         /\ result.err # "nil"
         /\ result.out = <<>>
    /\ result.kind = "ok" => result.err = "nil"

\* C23: during Decode the same cache has 768 entries: once a COPY has
\* resolved to the address A, a COPY in the same mode 6 + k whose address
\* byte b has k * 256 + b = A mod 768 resolves to A again, for A below 768
\* and for A from 768 on. In SameWin(a) both COPYs then copy the byte at a.
C23_SameCache768 ==
  \A a \in SameAddrs :
    (Done /\ OneWindow /\ desc.wins[1] = SameWin(a)) =>
      /\ result.kind = "ok"
      /\ result.out = SameBase \o <<SameBase[a + 1], SameBase[a + 1]>>

\* C24: a COPY whose address is inside the source segment and whose address
\* plus size, as unbounded integers, is past the end of the segment makes
\* Decode return an error and no bytes, also when the 32-bit sum wraps.
C24_CopyPastSegmentRejected ==
  \A a \in OverAddrs, n \in OverSizes :
    (/\ Done /\ OneWindow /\ desc.wins[1] = OverWin(a, n)
     /\ source = SrcABCDE
     /\ SumExceeds(U32(0, a), n, Len(SrcABCDE))) =>
      /\ result.kind = "err"
      /\ result.out = <<>>

\* the bytes source[p + a .. p + a + n) of the source of the decoder
SourceBytes(p, a, n) == SubSeq(source, p + a + 1, p + a + n)

RECURSIVE RefWalk(_, _, _, _)
\* what a list of ADDs and RUNs makes of a data section from the cursor d
\* on: the error, the bytes and the cursor at the end
RefWalk(ops, data, d, out) ==
  IF ops = <<>> THEN [err |-> FALSE, out |-> out, d |-> d]
  ELSE IF Head(ops).t = "add"
  THEN IF d + Head(ops).n > Len(data) THEN [err |-> TRUE, out |-> <<>>, d |-> d]
       ELSE RefWalk(Tail(ops), data, d + Head(ops).n,
                    out \o SubSeq(data, d + 1, d + Head(ops).n))
  ELSE IF d = Len(data) THEN [err |-> TRUE, out |-> <<>>, d |-> d]
       ELSE RefWalk(Tail(ops), data, d + 1,
                    out \o [k \in 1..Head(ops).n |-> data[d + 1]])

\* the walk of the instructions of the window that was parsed
WalkOfWindow == parseInstructions(windows[1].InstructionSection, windows[1].DataSection)

\* C26: the walker keeps a cursor d with 0 <= d <= len(data); an ADD of n
\* bytes fails when d + n > len(data) and otherwise takes data[d .. d + n)
\* and advances d by n; a RUN fails when d = len(data) and otherwise takes
\* the byte data[d], advances d by 1 and appends the byte size times, none
\* for the size 0.
C26_DataCursor ==
  \A ops \in OpSeqs, data \in OpData :
    (Done /\ OneWindow /\ desc.wins[1] = OpsWin(ops, data)) =>
      IF RefWalk(ops, data, 0, <<>>).err
      THEN /\ result.kind = "err"
           /\ result.err \in {"add-overrun", "run-no-data"}
           /\ windows = <<>>
      ELSE /\ result.kind = "ok"
           /\ result.out = RefWalk(ops, data, 0, <<>>).out
           /\ Len(windows) = 1
           /\ WalkOfWindow.dataIndex = RefWalk(ops, data, 0, <<>>).d
           /\ WalkOfWindow.dataIndex \in 0..Len(data)

\* a RUN of size 0 has consumed the byte A and the ADD after it produced
\* "B"; and an ADD of 2 bytes over "ABC" followed by a RUN of size 2 has
\* produced "ABCC"
C26_Witness ==
  /\ Done /\ OneWindow
  /\ \/ /\ desc.wins[1] = OpsWin(<<DataOp("run", 0), DataOp("add", 1)>>, <<65, 66>>)
        /\ result.out = <<66>>
     \/ /\ desc.wins[1] = OpsWin(<<DataOp("add", 2), DataOp("run", 2)>>, <<65, 66, 67>>)
        /\ result.out = <<65, 66, 67, 67>>

\* the row of the default code table by its number, in closed form
CopySizeOfRow(k) == IF k = 0 THEN 0 ELSE k + 3
ExpectedRow(r) ==
  IF r = 0 THEN <<NewInstruction(Run, 0, 0), NewInstruction(NoOp, 0, 0)>>
  ELSE IF r <= 18 THEN <<NewInstruction(Add, r - 1, 0), NewInstruction(NoOp, 0, 0)>>
  ELSE IF r <= 162
  THEN <<NewInstruction(Copy, CopySizeOfRow((r - 19) % 16), (r - 19) \div 16),
         NewInstruction(NoOp, 0, 0)>>
  ELSE IF r <= 234
  THEN <<NewInstruction(Add, (((r - 163) % 12) \div 3) + 1, 0),
         NewInstruction(Copy, ((r - 163) % 3) + 4, (r - 163) \div 12)>>
  ELSE IF r <= 246
  THEN <<NewInstruction(Add, ((r - 235) % 4) + 1, 0),
         NewInstruction(Copy, 4, 6 + ((r - 235) \div 4))>>
  ELSE <<NewInstruction(Copy, 4, r - 247), NewInstruction(Add, 1, 0)>>

\* the instruction of a slot as the walker hands it on
AsRuntime(ins) == [Type |-> ins.Type, Size |-> U32FromInt(ins.Size), Mode |-> ins.Mode]
Parsed(ri) == [Type |-> ri.Type, Size |-> ri.Size, Mode |-> ri.Mode]

IsResolved(e) == e.err = "nil"
ResolvedSeq == SelectSeq(log, IsResolved)

\* C28: the address cache is per window: at the start of a window near and
\* same are all zero, next_near_slot is 0 and the address cursor is at the
\* start of the address section; within a window, after j resolutions
\* next_near_slot is j mod 4 and near holds the last min(j, 4) addresses.
C28_CachePerWindow ==
  /\ log = <<>> =>
       /\ \A k \in 1..NearCacheSize : cache.near[k] = U32Zero
       /\ \A idx \in DOMAIN cache.same : cache.same[idx] = U32Zero
       /\ cache.nextNearSlot = 0
       /\ cache.addressStream.i = 0
  /\ cache.nextNearSlot = Len(ResolvedSeq) % NearCacheSize
  /\ \A i \in 1..Min(Len(ResolvedSeq), NearCacheSize) :
       cache.near[((Len(ResolvedSeq) - i) % NearCacheSize) + 1]
         = ResolvedSeq[Len(ResolvedSeq) - i + 1].addr
  /\ \A k \in (Len(ResolvedSeq) + 1)..NearCacheSize : cache.near[k] = U32Zero

\* six addresses have been resolved in one window, the fifth and the sixth
\* over the first and the second in the near ring
C28_Witness ==
  /\ Len(ResolvedSeq) = 6
  /\ cache.nextNearSlot = 2
  /\ cache.near = <<ResolvedSeq[5].addr, ResolvedSeq[6].addr, ResolvedSeq[3].addr,
                    ResolvedSeq[4].addr>>
  /\ ResolvedSeq[5].addr # ResolvedSeq[1].addr

\* the cache as the k-th call of the log left it
CacheAfter(k) == IF k < Len(log) THEN log[k + 1].before ELSE cache

\* C29: DecodeAddress with a mode above 8 returns an error, whatever the
\* cache, the address stream and here are, and reads no byte of the stream;
\* and a DecodeAddress that fails (invalid mode, HERE offset above here,
\* unreadable varint or byte) leaves near, same and next_near_slot as they
\* were.
C29_FailedDecodeAddress ==
  \A k \in 1..Len(log) :
    /\ log[k].mode > 8 =>
         /\ log[k].err # "nil"
         /\ log[k].to = log[k].from
    /\ log[k].err # "nil" =>
         /\ CacheAfter(k).near = log[k].before.near
         /\ CacheAfter(k).same = log[k].before.same
         /\ CacheAfter(k).nextNearSlot = log[k].before.nextNearSlot

\* after an address other than 0 was resolved, a call with a HERE offset
\* above here has failed, and so has a call in the mode 9 with bytes left
C29_Witness ==
  /\ Len(log) = 2
  /\ log[1].err = "nil" /\ log[1].addr # U32Zero
  /\ \/ log[2].err = "here-offset"
     \/ log[2].mode = 9 /\ log[2].err = "invalid-mode"
          /\ log[2].from < Len(cache.addressStream.s)
  /\ cache.near[1] = log[1].addr

\* the bytes of the delta that a parsed window stands for: its indicator,
\* its source segment fields, its delta_encoding_length and that many bytes
WindowBytes(w) ==
  1
  + (IF BitAnd(w.WinIndicator, VCDSource) # 0
     THEN Len(EncodeVarint(w.SourceSegmentSize))
          + Len(EncodeVarint(w.SourceSegmentPosition))
     ELSE 0)
  + Len(EncodeVarint(w.DeltaEncodingLength)) + U32ToInt(w.DeltaEncodingLength)
RECURSIVE SumWindowBytes(_)
SumWindowBytes(ws) ==
  IF ws = <<>> THEN 0 ELSE WindowBytes(Head(ws)) + SumWindowBytes(Tail(ws))

\* C30: no window is dropped: when ParseDelta succeeds, the bytes of the
\* delta after its 5-byte header are exactly the bytes of the windows in the
\* window list, and when Decode succeeds each of them was executed; a window
\* that runs out of input part-way is an error, never the end of the windows.
C30_NoWindowDropped ==
  (pc = "windows" \/ (Done /\ result.kind = "ok")) =>
    /\ Len(HeaderBytes) + SumWindowBytes(windows) = Len(delta)
    /\ Done => Len(outs) = Len(windows)

====
